---- MODULE Spec2Model ----
(***************************************************************************)
(* Process orchestration of the CLI bridge: spawnGemini (one turn = one    *)
(* child process), its stdout/stderr/close/error handlers, the no-output   *)
(* timeout, the response buffer, the registry activeGeminiProcesses and    *)
(* abortGeminiSession.                                                     *)
(*                                                                         *)
(* Strings are sequences of symbols.  Date.now().toString() is <<digit>>,  *)
(* a generated session id is <<prefix, "_", digit>>, so that the substring *)
(* test of abortGeminiSession (String.prototype.includes) is computed on   *)
(* the shapes the code produces.  An absent or empty string (undefined,    *)
(* null, '') is <<>>: all three are falsy in the code's tests.             *)
(***************************************************************************)
EXTENDS Integers, Sequences, FiniteSets, TLC

\* ------------------------------------------------------------------ bounds
MaxTurns  == 2   \* turn slots of the concurrent profile
MaxClock  == 2   \* distinct values Date.now() takes
MaxLines  == 2   \* lines a process writes to stdout
MaxChunk  == 6   \* tokens one stdout data callback carries at most
MaxStderr == 1   \* stderr data callbacks of one turn
MaxAborts == 1   \* calls of abortGeminiSession
MaxImages == 2   \* attachments of one turn (timeout profile)
MaxTools  == 2   \* entries of settings.allowedTools (tools profile)
SymSize   == 15  \* characters one text symbol stands for
MaxCalls  == 3   \* calls of initializeEngine (webllm profile)
MaxUnloads == 1  \* calls of unloadEngine (webllm profile)
MaxDeltas == 3   \* chunks one completion stream yields (chat profile)
MaxEntries == 2  \* lines of one JSONL file (projects profile)

None == <<>>

\* ------------------------------------------------------------------ strings
\* String.prototype.includes: needle occurs as a contiguous run of hay.
Includes(hay, needle) ==
  \E i \in 0..(Len(hay) - Len(needle)) :
     SubSeq(hay, i + 1, i + Len(needle)) = needle

Digits == <<"0", "1", "2", "3", "4", "5", "6", "7", "8", "9">>

\* Date.now().toString()
NowString(n) == <<Digits[n + 1]>>

RECURSIVE Concat(_)
\* Array.prototype.join('') of a list of strings.
Concat(ss) == IF ss = <<>> THEN <<>> ELSE Head(ss) \o Concat(Tail(ss))

IsPrefix(p, s) == Len(p) <= Len(s) /\ SubSeq(s, 1, Len(p)) = p

\* ------------------------------------------------------- Map (insertion order)
\* A JavaScript Map as the sequence of its entries in insertion order:
\* set() of a present key keeps its position, of an absent key appends.
MapKeys(m) == { m[i].key : i \in 1..Len(m) }

MapHas(m, k) == k \in MapKeys(m)

MapIdx(m, k) == CHOOSE i \in 1..Len(m) : m[i].key = k

MapSet(m, k, v) ==
  IF MapHas(m, k)
    THEN [m EXCEPT ![MapIdx(m, k)] = [key |-> k, val |-> v]]
    ELSE Append(m, [key |-> k, val |-> v])

MapDelete(m, k) == SelectSeq(m, LAMBDA e : e.key # k)

\* ---------------------------------------------------------------- providers

\* A resolution that passes every tag on as it is.
normalizeProviderAsGiven(providerOverride) == providerOverride

\* The providers normalizeProvider knows.
KnownProviders == {"codex", "claude", "webllm", "gemini"}

\* server/cli-config.js normalizeProvider, for a given provider override
\* (every tag here is lower case already).
normalizeProvider(providerOverride) ==
  IF providerOverride = "codex" THEN "codex"
  ELSE IF providerOverride = "claude" THEN "claude"
  ELSE IF providerOverride = "webllm" THEN "webllm"
  ELSE "gemini"

\* sessionPrefix of the stdout handler
sessionPrefix(cliProvider) ==
  IF cliProvider = "codex" THEN "codex"
  ELSE IF cliProvider = "claude" THEN "claude"
  ELSE IF cliProvider = "ollama" THEN "ollama"
  ELSE IF cliProvider = "bmad" THEN "bmad"
  ELSE "gemini"

\* tempDirName of the image staging
tempDirName(cliProvider) ==
  IF cliProvider = "codex" THEN "codex_tmp_images"
  ELSE IF cliProvider = "claude" THEN "claude_tmp_images"
  ELSE IF cliProvider = "ollama" THEN "ollama_tmp_images"
  ELSE IF cliProvider = "bmad" THEN "bmad_tmp_images"
  ELSE "gemini_tmp_images"

\* --------------------------------------------------------- process output
\* One token of a stream: half p (1 or 2) of the line of kind k with value v,
\* or the newline.  A line is its two halves followed by the newline, so a
\* data callback can end in the middle of a line.
Tok(k, v, p) == [k |-> k, v |-> v, p |-> p]

NLTok == Tok("nl", "", 0)

\* Lines a codex process writes with --json: thread.started with a thread
\* id or without, a completed agent_message item with a text (possibly empty),
\* turn.failed, and a line that is not JSON.
CodexLines ==
  { [k |-> "ts", v |-> "A"], [k |-> "ts", v |-> "B"], [k |-> "ts", v |-> ""],
    [k |-> "am", v |-> "x"], [k |-> "am", v |-> "y"], [k |-> "am", v |-> ""],
    [k |-> "tf", v |-> "f"], [k |-> "bad", v |-> "z"] }

\* Lines of a plain-text process: ordinary text, and a line whose first half
\* holds one of the debug markers of the gemini filter.
PlainLines ==
  { [k |-> "txt", v |-> "x"], [k |-> "txt", v |-> "y"], [k |-> "dbg", v |-> "d"] }

ExitCodes == {"0", "1"}

\* ------------------------------------------------------------------- state
VARIABLES
  profile,                \* "single" or "concurrent": which inputs are drawn
  now,                    \* the value of Date.now()
  activeGeminiProcesses,  \* Map: registry key -> turn (its geminiProcess)
  sessions,               \* sessionManager: session id -> record
  fsDirs,                 \* staging directories that exist
  fsFiles,                \* staged files that exist
  turn,                   \* per spawnGemini call: the closure's variables
  graceTimers,            \* pending setTimeout callbacks of abortGeminiSession
  abortLog,               \* calls of abortGeminiSession and what they did
  engine,                 \* webllmEngine.js: the MLCEngine, by the call that made it
  currentModel,           \* webllmEngine.js: the model id of the engine
  isInitializing,         \* webllmEngine.js: an initialization is running
  initPromise,            \* webllmEngine.js: the promise of that initialization
  calls,                  \* the calls of initializeEngine and where each one is
  unloads,                \* the calls of unloadEngine
  microtasks,             \* the continuations that are ready to run, in order
  chat,                   \* one call of generateChatCompletion
  projectDirs,            \* projects module: <ui home>/projects/<name>/*.jsonl
  projectConfigs,         \* projects module: <ui home>/project-config.json
  lastOp                  \* projects module: the last call and how it ended

\* The state of the spawnGemini server module.
serverVars == <<now, activeGeminiProcesses, sessions, fsDirs, fsFiles, turn,
                graceTimers, abortLog>>

\* The state of the WebLLM service of the browser.
serviceVars == <<engine, currentModel, isInitializing, initPromise, calls, unloads,
                 microtasks>>

\* The state of the projects module.
projectVars == <<projectDirs, projectConfigs, lastOp>>

\* What a step of the server module leaves alone.
browserVars == <<serviceVars, chat, projectVars>>

vars == <<profile, now, activeGeminiProcesses, sessions, fsDirs, fsFiles, turn,
          graceTimers, abortLog, engine, currentModel, isInitializing, initPromise,
          calls, unloads, microtasks, chat, projectDirs, projectConfigs, lastOp>>

Turns == 1..MaxTurns

TurnSlots == IF profile = "concurrent" THEN Turns ELSE {1}

\* The closure of a spawnGemini call before it is made.
IdleTurn ==
  [ pc |-> "idle",                 \* idle, building, running, closed
    sessionId |-> None, tag |-> "gemini", cliProvider |-> "gemini",
    command |-> <<>>, images |-> <<>>,
    settings |-> [skipPermissions |-> FALSE, allowedTools |-> <<>>],
    argsYolo |-> FALSE, argsAllowedTools |-> <<>>,
    capturedSessionId |-> None, sessionCreatedSent |-> FALSE,
    fullResponse |-> <<>>, pendingExternalSessionId |-> None,
    promptCtx |-> FALSE, promptNote |-> <<>>, argsResume |-> None,
    argsImages |-> <<>>,
    tempImagePaths |-> <<>>, tempDir |-> None, processKey |-> None,
    hasReceivedOutput |-> FALSE, timeout |-> "unset",
    codexLineBuffer |-> <<>>, codexStderrBuffer |-> <<>>,
    hasHandler |-> FALSE, acc |-> <<>>, debounce |-> FALSE, maxWait |-> FALSE,
    deferred |-> FALSE,
    spawnOk |-> FALSE, errored |-> FALSE, signals |-> {},
    written |-> <<>>, nStdout |-> 0, nStderr |-> 0, stderrLog |-> <<>>,
    closeCode |-> "",
    sink |-> <<>>, norm |-> <<>>, fed |-> <<>>, flushes |-> 0,
    promise |-> "pending" ]

\* ------------------------------------------------------------ sessionManager
\* The session store the orchestrator writes through: session id -> record.
\* Every session and every message carries the turn that created or appended
\* it (0: an earlier run of the server).
NewSession(cliProvider, by) ==
  [messages |-> <<>>, externalSessionId |-> None, provider |-> cliProvider, by |-> by]

createSession(ss, id, cliProvider, by) ==
  [x \in DOMAIN ss \cup {id} |-> IF x = id THEN NewSession(cliProvider, by) ELSE ss[x]]

addMessage(ss, id, role, text, by) ==
  LET base == IF id \in DOMAIN ss THEN ss ELSE createSession(ss, id, "", by)
  IN  [base EXCEPT ![id].messages =
         Append(@, [role |-> role, text |-> text, by |-> by])]

getExternalSessionId(ss, id) ==
  IF id \in DOMAIN ss THEN ss[id].externalSessionId ELSE None

setExternalSessionId(ss, id, externalId) ==
  IF id \in DOMAIN ss THEN [ss EXCEPT ![id].externalSessionId = externalId] ELSE ss

\* buildConversationContext returns a transcript of the prior turns, or null
\* when the session has none: TRUE when it returns a transcript.
buildConversationContext(ss, id) ==
  id \in DOMAIN ss /\ ss[id].messages # <<>>

\* A session an earlier run left in the store.
OldSessionId == <<"codex", "_", "0">>

OldSession(externalId) ==
  [messages |-> <<[role |-> "user", text |-> <<"old">>, by |-> 0]>>,
   externalSessionId |-> externalId, provider |-> "codex", by |-> 0]

\* ------------------------------------------------------------------ inputs
\* What each profile draws.  single: one turn, its options and every way it
\* ends; stream: one turn, every line and every split of its output;
\* abort: one turn and abortGeminiSession; concurrent: MaxTurns turns;
\* timeout: one turn whose output comes in whole lines, its timer, any
\* provider tag and any list of attachments; tools: one turn and its tools
\* settings.
ProviderTags ==
  IF profile = "single" THEN {"codex", "gemini", "claude"}
  ELSE IF profile = "stream" THEN {"codex", "gemini", "claude", "ollama"}
  ELSE IF profile = "abort" THEN {"codex", "gemini"}
  ELSE IF profile = "timeout" THEN {"codex", "gemini", "unknown"}
  ELSE IF profile = "tools" THEN {"codex", "gemini"}
  ELSE {"codex"}

\* The session ids a turn is started with: none, or a session of the store.
SessionIds == {None} \cup DOMAIN sessions

Commands == IF profile = "single" THEN {<<"hi">>, <<>>} ELSE {<<"hi">>}

SpawnOutcomes == IF profile \in {"single", "abort"} THEN BOOLEAN ELSE {TRUE}

ImageKinds == {"ok", "bad", "wfail"}

\* ok: a well-formed data URI; bad: one the regular expression rejects;
\* wfail: a well-formed one whose fs.writeFile throws.
ImageLists ==
  IF profile = "single" THEN {<<>>} \cup { <<k>> : k \in ImageKinds }
  ELSE IF profile = "timeout" THEN UNION { [1..n -> ImageKinds] : n \in 0..MaxImages }
  ELSE IF profile = "abort" THEN {<<>>, <<"ok">>, <<"bad">>}
  ELSE {<<>>}

\* Tool names a client can put in settings.allowedTools: one of the
\* critical tools and two others.
ToolNames == {"Bash", "WebFetch", "WebSearch"}

\* toolsSettings of the options: the default of lines 789-793, or what the
\* frontend sends.
ToolsSettings ==
  IF profile = "tools"
    THEN { [skipPermissions |-> sp, allowedTools |-> at] :
             sp \in BOOLEAN,
             at \in UNION { [1..n -> ToolNames] : n \in 0..MaxTools } }
    ELSE { [skipPermissions |-> FALSE, allowedTools |-> <<>>] }

\* --------------------------------------------------- the WebLLM service
\* let engine = null, let currentModel = null, let initPromise = null.
NoEngine == 0

NoModel == "null"

NoPromise == 0

Calls == 1..MaxCalls

Unloads == 1..MaxUnloads

\* A call of initializeEngine that has not been made.  promise is the state
\* of the promise of its async arrow function, reactions the calls that await
\* that promise in the order they began to, seen what getEngineStatus()
\* returns when the call settles.
IdleCall ==
  [pc |-> "idle", modelId |-> NoModel, awaited |-> NoPromise, promise |-> "none",
   reactions |-> <<>>, attempt |-> 0, candidates |-> 0, started |-> FALSE,
   imported |-> FALSE,
   loadedAtCall |-> FALSE, error |-> NoPromise,
   seen |-> [isLoaded |-> FALSE, currentModel |-> NoModel, isInitializing |-> FALSE]]

\* A call initializeEngine('m1') that loaded the model and returned.
LoadedCall ==
  [IdleCall EXCEPT !.pc = "resolved", !.modelId = "m1", !.promise = "fulfilled",
                   !.reactions = <<1>>, !.started = TRUE, !.imported = TRUE,
                   !.seen = [isLoaded |-> TRUE, currentModel |-> "m1",
                             isInitializing |-> FALSE]]

\* A call of unloadEngine that has not been made.
IdleUnload == [pc |-> "idle", resolvedBefore |-> {}, undoes |-> {}]

\* A call of generateChatCompletion that has not been made.
IdleChat ==
  [pc |-> "idle", signal |-> "none", onChunk |-> FALSE, aborted |-> FALSE,
   fullResponse |-> <<>>, delivered |-> <<>>, deltas |-> 0, late |-> 0,
   result |-> <<>>, noEngine |-> FALSE]

\* ------------------------------------------------------ the projects module
\* The ui homes of getUiHome (CLI_UI_HOME unset), the override values the
\* callers pass ("" is null), and the provider of the environment.
Homes == {"gemini", "codex"}

ProviderOverrides == {"", "codex", "webllm"}

DefaultProvider == "gemini"

\* The project of the calls, and another one.
ProjectNames == {"p", "q"}

FileNames == {"a.jsonl", "b.jsonl"}

\* A line of a JSONL file: an entry of session s1 or s2, an entry without
\* sessionId, and a line JSON.parse rejects (which has the text of an s1
\* entry in it).  A file is the sequence of its lines that are not blank.
JsonlLines ==
  { [ok |-> TRUE, sessionId |-> "s1"], [ok |-> TRUE, sessionId |-> "s2"],
    [ok |-> TRUE, sessionId |-> ""], [ok |-> FALSE, sessionId |-> "s1"] }

NoFile == [exists |-> FALSE, lines |-> <<>>]

FileOf(lines) == [exists |-> TRUE, lines |-> lines]

NoDir == [exists |-> FALSE, files |-> [f \in FileNames |-> NoFile]]

\* The files of one project directory: a.jsonl with up to MaxEntries lines,
\* b.jsonl with one line at most.
FileStates(n) == {NoFile} \cup { FileOf(l) : l \in UNION { [1..k -> JsonlLines] : k \in 0..n } }

DirStates ==
  {NoDir} \cup { [exists |-> TRUE, files |-> [f \in FileNames |-> IF f = "a.jsonl" THEN a ELSE b]] :
                   a \in FileStates(MaxEntries), b \in FileStates(1) }

\* The directory of the same project in the default home: absent, empty, or
\* with one file that holds no entry or one.
SmallDirStates == { d \in DirStates : ~d.files["b.jsonl"].exists /\ Len(d.files["a.jsonl"].lines) <= 1 }

\* The directory of the other project.
OtherDir ==
  [exists |-> TRUE,
   files |-> [f \in FileNames |->
                IF f = "a.jsonl" THEN FileOf(<<[ok |-> TRUE, sessionId |-> "s1"]>>) ELSE NoFile]]

ProjectDirStates ==
  { [h \in Homes |-> [n \in ProjectNames |->
        IF n = "q" THEN OtherDir ELSE IF h = "codex" THEN c ELSE g]] :
    c \in DirStates, g \in SmallDirStates }

NoProjectDirs == [h \in Homes |-> [n \in ProjectNames |-> NoDir]]

\* An entry of project-config.json: what addProjectManually writes
\* (manuallyAdded, originalPath and a display name if one was given) and
\* what renameProject writes; an absent field is FALSE or empty.
NoEntry == [exists |-> FALSE, manuallyAdded |-> FALSE, originalPath |-> "", displayName |-> <<>>]

ManualEntry(displayName) ==
  [exists |-> TRUE, manuallyAdded |-> TRUE, originalPath |-> "/w", displayName |-> displayName]

NamedEntry(displayName) ==
  [exists |-> TRUE, manuallyAdded |-> FALSE, originalPath |-> "", displayName |-> displayName]

EntryStates == {NoEntry, ManualEntry(<<>>), ManualEntry(<<"O">>), NamedEntry(<<"O">>)}

ProjectConfigStates ==
  { [h \in Homes |-> [n \in ProjectNames |->
        IF n = "q" THEN ManualEntry(<<"Q">>) ELSE IF h = "codex" THEN c ELSE g]] :
    c \in EntryStates, g \in {NoEntry, ManualEntry(<<>>)} }

NoProjectConfigs == [h \in Homes |-> [n \in ProjectNames |-> NoEntry]]

\* No call of the projects module has been made.
NoOp == [op |-> "none", home |-> "", project |-> "", sessionId |-> "", result |-> "", error |-> ""]

\* --------------------------------------------------------------------- Init
InitWith(p) ==
  /\ profile = p
  /\ now = 1
  /\ activeGeminiProcesses = <<>>
  /\ \E ext \in (IF p \in {"webllm", "chat", "projects"} THEN {None} ELSE {None, <<"E">>}) :
       sessions = [x \in {OldSessionId} |-> OldSession(ext)]
  /\ fsDirs = {}
  /\ fsFiles = {}
  /\ turn = [t \in Turns |-> IdleTurn]
  /\ graceTimers = <<>>
  /\ abortLog = <<>>
  /\ \E loaded \in (IF p = "chat" THEN BOOLEAN ELSE {FALSE}) :
       /\ engine = IF loaded THEN 1 ELSE NoEngine
       /\ currentModel = IF loaded THEN "m1" ELSE NoModel
       /\ calls = [i \in Calls |-> IF loaded /\ i = 1 THEN LoadedCall ELSE IdleCall]
  /\ isInitializing = FALSE
  /\ initPromise = NoPromise
  /\ unloads = [u \in Unloads |-> IdleUnload]
  /\ microtasks = <<>>
  /\ chat = IdleChat
  /\ projectDirs \in (IF p = "projects" THEN ProjectDirStates ELSE {NoProjectDirs})
  /\ projectConfigs \in (IF p = "projects" THEN ProjectConfigStates ELSE {NoProjectConfigs})
  /\ lastOp = NoOp

Init == InitWith("single")

InitStream == InitWith("stream")

InitAbort == InitWith("abort")

InitConcurrent == InitWith("concurrent")

InitTimeout == InitWith("timeout")

InitTools == InitWith("tools")

\* A turn starts or spawns while the grace period of an abort is running.
NoteNewTurn(log) ==
  [i \in 1..Len(log) |->
     IF log[i].graceOver THEN log[i] ELSE [log[i] EXCEPT !.newTurn = TRUE]]

\* ------------------------------------------------------- spawnGemini, part 1
\* Lines 801-822: promptToUse carries the rebuilt transcript (context +
\* command) or is the bare command.
PromptHasContext(ss, sessionId, cliProvider, command) ==
  /\ command # <<>>
  /\ sessionId # None
  /\ cliProvider # "bmad"
  /\ (IF cliProvider = "codex" THEN getExternalSessionId(ss, sessionId) ELSE None) = None
  /\ buildConversationContext(ss, sessionId)

\* spawnGemini up to its first suspension (await fs.access): the options are
\* read, the provider resolved and the prompt constructed.
StartTurn(t, sessionId, tag, command, images, settings) ==
  /\ turn[t].pc = "idle"
  /\ LET cliProvider == normalizeProvider(tag)
     IN  turn' = [turn EXCEPT ![t] =
           [@ EXCEPT !.pc = "building",
                     !.sessionId = sessionId,
                     !.capturedSessionId = sessionId,
                     !.tag = tag,
                     !.cliProvider = cliProvider,
                     !.command = command,
                     !.images = images,
                     !.settings = settings,
                     !.promptCtx =
                        PromptHasContext(sessions, sessionId, cliProvider, command)]]
  /\ abortLog' = NoteNewTurn(abortLog)
  /\ UNCHANGED <<profile, now, activeGeminiProcesses, sessions, fsDirs, fsFiles,
                 graceTimers>>

\* ------------------------------------------------------- spawnGemini, part 2
ImagePath(dir, index) == dir \o <<"image", Digits[index + 1]>>

RECURSIVE StageFrom(_, _, _, _)
\* The loop of lines 856-872 from entry i on: a malformed entry is skipped,
\* a throwing writeFile leaves the loop (to the catch of line 884).
StageFrom(images, i, dir, paths) ==
  IF i > Len(images) THEN [paths |-> paths, threw |-> FALSE]
  ELSE IF images[i] = "bad" THEN StageFrom(images, i + 1, dir, paths)
  ELSE IF images[i] = "wfail" THEN [paths |-> paths, threw |-> TRUE]
  ELSE StageFrom(images, i + 1, dir, Append(paths, ImagePath(dir, i - 1)))

\* Lines 836-887: what the turn staged.
Staging(r, clock) ==
  IF r.images # <<>> /\ r.cliProvider # "bmad"
    THEN LET dir == <<tempDirName(r.cliProvider)>> \o NowString(clock)
             st  == StageFrom(r.images, 1, dir, <<>>)
         IN  [tempDir |-> dir, made |-> TRUE, paths |-> st.paths,
              note |-> IF r.cliProvider # "codex" /\ ~st.threw
                          /\ st.paths # <<>> /\ r.command # <<>>
                         THEN st.paths ELSE <<>>]
    ELSE [tempDir |-> None, made |-> FALSE, paths |-> <<>>, note |-> <<>>]

Range(s) == { s[i] : i \in 1..Len(s) }

\* Lines 1002-1018
criticalTools ==
  << "run_shell_command", "Bash", "Bash(git log:*)", "Bash(git diff:*)",
     "Bash(git status:*)", "write_file", "read_file", "search_file_content",
     "save_memory", "replace", "Write", "Read", "Edit", "Glob", "Grep" >>

RECURSIVE AddCritical(_, _)
\* Lines 1023-1027: each tool that toolsToAllow does not include is pushed.
AddCritical(toolsToAllow, tools) ==
  IF tools = <<>> THEN toolsToAllow
  ELSE AddCritical(IF Head(tools) \in Range(toolsToAllow)
                     THEN toolsToAllow
                     ELSE Append(toolsToAllow, Head(tools)),
                   Tail(tools))

\* The flag and the tool list belong to the last branch of the argument
\* construction, the one of gemini (lines 924-1033).
GeminiFlags(r) == r.cliProvider \notin {"codex", "claude", "ollama", "bmad"}

\* Lines 996-998
Yolo(r) == GeminiFlags(r) /\ r.settings.skipPermissions

\* Lines 999-1032: what follows --allowed-tools, empty when it is not passed.
AllowedToolsArgs(r) ==
  IF GeminiFlags(r) /\ ~r.settings.skipPermissions
    THEN AddCritical(r.settings.allowedTools, criticalTools)
    ELSE <<>>

\* Lines 906-909: the resume arguments of codex.
ResumeArg(ss, r) ==
  IF r.cliProvider = "codex" /\ r.sessionId # None
    THEN getExternalSessionId(ss, r.sessionId)
    ELSE None

\* Lines 1067-1069
ProcessKey(r, clock) ==
  IF r.capturedSessionId # None THEN r.capturedSessionId
  ELSE IF r.sessionId # None THEN r.sessionId
  ELSE NowString(clock)

\* spawnGemini after the suspension: staging, arguments, spawn, registry
\* insert, timeout timer, user message, response handler.  spawned is
\* whether the binary could be started.
SpawnTurn(t, spawned) ==
  /\ turn[t].pc = "building"
  /\ LET r   == turn[t]
         st  == Staging(r, now)
         key == ProcessKey(r, now)
     IN  /\ fsDirs' = IF st.made THEN fsDirs \cup {st.tempDir} ELSE fsDirs
         /\ fsFiles' = fsFiles \cup Range(st.paths)
         /\ activeGeminiProcesses' = MapSet(activeGeminiProcesses, key, t)
         /\ sessions' = IF r.command # <<>> /\ r.capturedSessionId # None
                          THEN addMessage(sessions, r.capturedSessionId, "user",
                                          r.command, t)
                          ELSE sessions
         /\ turn' = [turn EXCEPT ![t] =
              [@ EXCEPT !.pc = "running",
                        !.tempDir = st.tempDir,
                        !.tempImagePaths = st.paths,
                        !.promptNote = st.note,
                        !.argsImages = IF r.cliProvider = "codex" THEN st.paths ELSE <<>>,
                        !.argsResume = ResumeArg(sessions, r),
                        !.argsYolo = Yolo(r),
                        !.argsAllowedTools = AllowedToolsArgs(r),
                        !.processKey = key,
                        !.timeout = "armed",
                        !.hasHandler = (r.cliProvider # "ollama"),
                        !.spawnOk = spawned]]
  /\ abortLog' = NoteNewTurn(abortLog)
  /\ UNCHANGED <<profile, now, graceTimers>>

\* Date.now() advances.
Tick ==
  /\ now < MaxClock
  /\ now' = now + 1
  /\ UNCHANGED <<profile, activeGeminiProcesses, sessions, fsDirs, fsFiles, turn,
                 graceTimers, abortLog>>
  /\ UNCHANGED browserVars

\* --------------------------------------------------------------- event sink
\* ws.send of one event of the given type.
Send(r, type, data) == [r EXCEPT !.sink = Append(@, [type |-> type, data |-> data])]

ErrorData(kind, text) == [kind |-> kind, text |-> text]

\* ---------------------------------------------------------- response buffer
\* GeminiResponseHandler: processData appends to the accumulator, restarts
\* the debounce timer and starts the ceiling timer if none is pending.
processData(r, text) ==
  [r EXCEPT !.acc = @ \o text,
            !.debounce = TRUE,
            !.maxWait = TRUE,
            !.fed = Append(@, text)]

\* The accumulated text leaves as one increment and the accumulator clears.
Emit(r) ==
  IF r.acc = <<>> THEN r
  ELSE [Send(r, "response", r.acc) EXCEPT !.acc = <<>>, !.deferred = FALSE]

\* forceFlush: the remainder leaves at once.
forceFlush(r) == [Emit(r) EXCEPT !.flushes = @ + 1]

\* destroy: every timer is cancelled.
destroy(r) == [r EXCEPT !.debounce = FALSE, !.maxWait = FALSE]

\* The chunk of a normalizer goes to the buffer, or straight to the sink
\* when the turn has no response handler.
Deliver(r, content) ==
  LET n == [r EXCEPT !.norm = Append(@, [kind |-> "chunk", data |-> content])]
  IN  IF n.hasHandler THEN processData(n, content) ELSE Send(n, "response", content)

\* fullResponse += (fullResponse ? '\n' : '') + content
JoinResponse(fullResponse, content) ==
  IF fullResponse = <<>> THEN content ELSE fullResponse \o <<NLTok>> \o content

\* ------------------------------------------------------------ text of lines
RECURSIVE SplitNL(_)
\* String.prototype.split('\n')
SplitNL(s) ==
  IF \A i \in 1..Len(s) : s[i] # NLTok THEN <<s>>
  ELSE LET i == CHOOSE i \in 1..Len(s) :
                   s[i] = NLTok /\ \A j \in 1..(i - 1) : s[j] # NLTok
       IN  <<SubSeq(s, 1, i - 1)>> \o SplitNL(SubSeq(s, i + 1, Len(s)))

RECURSIVE JoinNL(_)
\* Array.prototype.join('\n')
JoinNL(lines) ==
  IF lines = <<>> THEN <<>>
  ELSE IF Len(lines) = 1 THEN lines[1]
  ELSE lines[1] \o <<NLTok>> \o JoinNL(Tail(lines))

RECURSIVE TrimStart(_)
TrimStart(s) == IF s # <<>> /\ Head(s) = NLTok THEN TrimStart(Tail(s)) ELSE s

RECURSIVE TrimEnd(_)
TrimEnd(s) ==
  IF s # <<>> /\ s[Len(s)] = NLTok THEN TrimEnd(SubSeq(s, 1, Len(s) - 1)) ELSE s

\* String.prototype.trim: the newline is the only white space of a stream.
Trim(s) == TrimEnd(TrimStart(s))

\* JSON.parse succeeds on a line made of the two halves of one JSON line.
IsJson(line) ==
  /\ Len(line) = 2
  /\ line[1].p = 1 /\ line[2].p = 2
  /\ line[1].k = line[2].k /\ line[1].v = line[2].v
  /\ line[1].k \in {"ts", "am", "tf"}

\* The text of an agent_message item (event.item.text || '').
MessageText(v) == IF v = "" THEN <<>> ELSE <<Tok("text", v, 0)>>

\* ------------------------------------------------- stdout handler, by provider
\* Lines 1134-1164: one parsed event of codex.  w = [r: the closure,
\* ss: the session store].
CodexEvent(w, event) ==
  LET r == w.r
  IN  IF event.k = "ts" /\ event.v # ""
        THEN [r  |-> [r EXCEPT !.pendingExternalSessionId = <<event.v>>,
                               !.norm = Append(@, [kind |-> "correlation",
                                                   data |-> <<event.v>>])],
              ss |-> IF r.capturedSessionId # None
                       THEN setExternalSessionId(w.ss, r.capturedSessionId, <<event.v>>)
                       ELSE w.ss]
      ELSE IF event.k = "am"
        THEN LET content == MessageText(event.v)
             IN  IF content # <<>>
                   THEN [w EXCEPT !.r = Deliver(
                           [r EXCEPT !.fullResponse = JoinResponse(@, content)],
                           content)]
                   ELSE w
      ELSE IF event.k = "tf"
        THEN [w EXCEPT !.r = Send(
                [r EXCEPT !.norm = Append(@, [kind |-> "error", data |-> <<event.v>>])],
                "error", ErrorData("event", <<event.v>>))]
      ELSE w

RECURSIVE CodexLoop(_, _)
\* Lines 1123-1165: the loop over the complete lines.
CodexLoop(w, lines) ==
  IF lines = <<>> THEN w
  ELSE LET trimmed == Trim(Head(lines))
       IN  IF trimmed = <<>> \/ ~IsJson(trimmed)
             THEN CodexLoop(w, Tail(lines))
             ELSE CodexLoop(CodexEvent(w, [k |-> trimmed[1].k, v |-> trimmed[1].v]),
                            Tail(lines))

\* The codex branch without the line buffer: each callback is split alone.
CodexStdoutNoHold(w, rawOutput) ==
  LET lines == SplitNL(rawOutput)
      n     == Len(lines)
  IN  CodexLoop([w EXCEPT !.r.codexLineBuffer = lines[n]], SubSeq(lines, 1, n - 1))

\* Lines 1118-1165
CodexStdout(w, rawOutput) ==
  LET buffered == w.r.codexLineBuffer \o rawOutput
      lines    == SplitNL(buffered)
      n        == Len(lines)
  IN  CodexLoop([w EXCEPT !.r.codexLineBuffer = lines[n]], SubSeq(lines, 1, n - 1))

\* A line holds one of the markers of lines 1171-1176.
HasMarker(line) == \E i \in 1..Len(line) : line[i].k = "dbg" /\ line[i].p = 1

\* Lines 1166-1198
GeminiStdout(w, rawOutput) ==
  LET filteredLines  == SelectSeq(SplitNL(rawOutput), LAMBDA l : ~HasMarker(l))
      filteredOutput == Trim(JoinNL(filteredLines))
  IN  IF filteredOutput # <<>>
        THEN [w EXCEPT !.r = Deliver(
                [w.r EXCEPT !.fullResponse = JoinResponse(@, filteredOutput)],
                filteredOutput)]
        ELSE w

\* Lines 1199-1203: the streams here hold no escape sequence and no spinner
\* glyph, so sanitizeCliOutput and stripOllamaSpinner leave them as they are.
OllamaStdout(w, rawOutput) ==
  IF Trim(rawOutput) # <<>>
    THEN [w EXCEPT !.r.fullResponse = @ \o rawOutput]
    ELSE w

\* Lines 1204-1221
OtherStdout(w, rawOutput) ==
  LET trimmedOutput == Trim(rawOutput)
  IN  IF trimmedOutput # <<>>
        THEN [w EXCEPT !.r = Deliver(
                [w.r EXCEPT !.fullResponse = JoinResponse(@, trimmedOutput)],
                trimmedOutput)]
        ELSE w

Normalize(w, rawOutput) ==
  IF w.r.cliProvider = "codex" THEN CodexStdout(w, rawOutput)
  ELSE IF w.r.cliProvider = "gemini" THEN GeminiStdout(w, rawOutput)
  ELSE IF w.r.cliProvider = "ollama" THEN OllamaStdout(w, rawOutput)
  ELSE OtherStdout(w, rawOutput)

\* ------------------------------------------------------------ stdout handler
\* The lines a process of the provider writes, and how many of them: the
\* stream profile draws every line, the other profiles one line of a few.
LinesOf(cliProvider) ==
  IF profile = "stream"
    THEN IF cliProvider = "codex" THEN CodexLines ELSE PlainLines
  ELSE IF profile = "concurrent"
    THEN { [k |-> "ts", v |-> "A"], [k |-> "am", v |-> "x"] }
  ELSE IF cliProvider = "codex"
    THEN { [k |-> "ts", v |-> "A"], [k |-> "am", v |-> "x"], [k |-> "tf", v |-> "f"] }
    ELSE { [k |-> "txt", v |-> "x"], [k |-> "dbg", v |-> "d"] }

LineBudget == IF profile = "stream" THEN MaxLines ELSE 1

\* The token a process can write after the stream `written`: a line is
\* its two halves and the newline.
NextTokens(cliProvider, written) ==
  IF Len(written) % 3 = 0
    THEN IF Len(written) \div 3 < LineBudget
           THEN { Tok(l.k, l.v, 1) : l \in LinesOf(cliProvider) }
           ELSE {}
  ELSE IF Len(written) % 3 = 1
    THEN { Tok(written[Len(written)].k, written[Len(written)].v, 2) }
  ELSE { NLTok }

RECURSIVE NextChunks(_, _, _)
\* What a process that has written `written` can write next and one data
\* callback can carry: between 1 and n tokens.
NextChunks(cliProvider, written, n) ==
  IF n = 0 THEN {}
  ELSE UNION { {<<x>>} \cup { <<x>> \o c :
                               c \in NextChunks(cliProvider, written \o <<x>>, n - 1) } :
               x \in NextTokens(cliProvider, written) }

\* The data one callback can carry: any run of tokens, whole lines only in
\* the concurrent and timeout profiles.
Chunks(cliProvider, written) ==
  IF profile \in {"concurrent", "timeout"}
    THEN { c \in NextChunks(cliProvider, written, 3) : Len(c) = 3 }
    ELSE NextChunks(cliProvider, written, MaxChunk)

\* clearTimeout(timeout): a timer that has fired stays fired.
clearTimeout(r) == IF r.timeout = "armed" THEN [r EXCEPT !.timeout = "cleared"] ELSE r

\* capturedSessionId || sessionId || processKey
FinalSessionId(r) ==
  IF r.capturedSessionId # None THEN r.capturedSessionId
  ELSE IF r.sessionId # None THEN r.sessionId
  ELSE r.processKey

\* The condition of line 1224 without its tests of the session id.
CreatesSessionAnyTurn(r) == ~r.sessionCreatedSent

\* The condition of line 1224 without its once-only flags.
CreatesSessionEveryCallback(r) == r.sessionId = None

\* Lines 1223-1251 hold for the closure r.
CreatesSession(r) ==
  r.sessionId = None /\ ~r.sessionCreatedSent /\ r.capturedSessionId = None

\* geminiProcess.stdout.on('data'), lines 1112-1252
Stdout(t, rawOutput) ==
  /\ turn[t].pc = "running"
  /\ turn[t].spawnOk
  /\ rawOutput # <<>>
  /\ LET r0 == clearTimeout([turn[t] EXCEPT !.hasReceivedOutput = TRUE,
                                            !.written = @ \o rawOutput,
                                            !.nStdout = @ + 1])
         w  == Normalize([r |-> r0, ss |-> sessions], rawOutput)
         r1 == w.r
         id == <<sessionPrefix(r1.cliProvider), "_">> \o NowString(now)
     IN  IF CreatesSession(r1)
           THEN LET s1 == createSession(w.ss, id, r1.cliProvider, t)
                    s2 == IF r1.command # <<>>
                            THEN addMessage(s1, id, "user", r1.command, t) ELSE s1
                    s3 == IF r1.pendingExternalSessionId # None
                            THEN setExternalSessionId(s2, id, r1.pendingExternalSessionId)
                            ELSE s2
                IN  /\ sessions' = s3
                    /\ activeGeminiProcesses' =
                         IF r1.processKey # id
                           THEN MapSet(MapDelete(activeGeminiProcesses, r1.processKey), id, t)
                           ELSE activeGeminiProcesses
                    /\ turn' = [turn EXCEPT ![t] =
                         Send([r1 EXCEPT !.capturedSessionId = id,
                                         !.sessionCreatedSent = TRUE],
                              "session-created", id)]
           ELSE /\ sessions' = w.ss
                /\ activeGeminiProcesses' = activeGeminiProcesses
                /\ turn' = [turn EXCEPT ![t] = r1]
  /\ UNCHANGED <<profile, now, fsDirs, fsFiles, graceTimers, abortLog>>

\* ------------------------------------------------------------ stderr handler
\* A deprecation banner (suppressed by lines 1260-1263) and an error text.
StderrMessages == { <<Tok("dep", "w", 1)>>, <<Tok("err", "e", 1)>> }

IsBenign(errorMsg) == \E i \in 1..Len(errorMsg) : errorMsg[i].k = "dep"

\* geminiProcess.stderr.on('data'), lines 1255-1289
Stderr(t, errorMsg) ==
  /\ turn[t].pc = "running"
  /\ turn[t].spawnOk
  /\ turn[t].nStderr < MaxStderr
  /\ LET r == [turn[t] EXCEPT !.nStderr = @ + 1, !.stderrLog = Append(@, errorMsg)]
     IN  turn' = [turn EXCEPT ![t] =
           IF IsBenign(errorMsg) THEN r
           ELSE IF r.cliProvider = "codex"
             THEN [r EXCEPT !.codexStderrBuffer = @ \o errorMsg]
           ELSE IF r.cliProvider = "ollama"
             THEN IF Trim(errorMsg) = <<>> THEN r
                  ELSE Send(r, "error", ErrorData("stderr", Trim(errorMsg)))
           ELSE Send(r, "error", ErrorData("stderr", errorMsg))]
  /\ UNCHANGED <<profile, now, activeGeminiProcesses, sessions, fsDirs, fsFiles,
                 graceTimers, abortLog>>

\* The timeout callback without its kill.
TimeoutFireNoKill(t) ==
  /\ turn[t].pc = "running"
  /\ turn[t].spawnOk
  /\ turn[t].timeout = "armed"
  /\ LET r == [turn[t] EXCEPT !.timeout = "fired"]
     IN  turn' = [turn EXCEPT ![t] =
           IF ~r.hasReceivedOutput
             THEN Send(r, "error", ErrorData("timeout", <<>>))
             ELSE r]
  /\ UNCHANGED <<profile, now, activeGeminiProcesses, sessions, fsDirs, fsFiles,
                 graceTimers, abortLog>>

\* ------------------------------------------------------------- timeout timer
\* The setTimeout callback of lines 1081-1090.  A process that could not be
\* started has its 'error' and 'close' long before the window elapses.
TimeoutFire(t) ==
  /\ turn[t].pc = "running"
  /\ turn[t].spawnOk
  /\ turn[t].timeout = "armed"
  /\ LET r == [turn[t] EXCEPT !.timeout = "fired"]
     IN  turn' = [turn EXCEPT ![t] =
           IF ~r.hasReceivedOutput
             THEN [Send(r, "error", ErrorData("timeout", <<>>))
                     EXCEPT !.signals = @ \cup {"SIGTERM"}]
             ELSE r]
  /\ UNCHANGED <<profile, now, activeGeminiProcesses, sessions, fsDirs, fsFiles,
                 graceTimers, abortLog>>

\* ---------------------------------------------------- response buffer timers
\* The debounce timer elapses: the accumulated text leaves as one increment,
\* unless it is below minBufferSize and has not been deferred yet.
minBufferSize == 30

DebounceFire(t) ==
  /\ turn[t].pc = "running"
  /\ turn[t].debounce
  /\ LET r == [turn[t] EXCEPT !.debounce = FALSE]
     IN  turn' = [turn EXCEPT ![t] =
           IF Len(r.acc) * SymSize < minBufferSize /\ ~r.deferred
             THEN [r EXCEPT !.deferred = TRUE]
             ELSE [Emit(r) EXCEPT !.maxWait = FALSE]]
  /\ UNCHANGED <<profile, now, activeGeminiProcesses, sessions, fsDirs, fsFiles,
                 graceTimers, abortLog>>

\* The ceiling timer elapses: whatever is accumulated leaves.
MaxWaitFire(t) ==
  /\ turn[t].pc = "running"
  /\ turn[t].maxWait
  /\ turn' = [turn EXCEPT ![t] =
       [Emit(turn[t]) EXCEPT !.maxWait = FALSE, !.debounce = FALSE]]
  /\ UNCHANGED <<profile, now, activeGeminiProcesses, sessions, fsDirs, fsFiles,
                 graceTimers, abortLog>>

\* ------------------------------------------------------------- close handler
\* Lines 1296-1304: a trailing line of codex without its newline.
TrailingCodexLine(r) ==
  LET trimmed == Trim(r.codexLineBuffer)
  IN  IF r.cliProvider = "codex" /\ trimmed # <<>> /\ IsJson(trimmed)
         /\ trimmed[1].k = "am" /\ MessageText(trimmed[1].v) # <<>>
        THEN [r EXCEPT !.fullResponse = JoinResponse(@, MessageText(trimmed[1].v))]
        ELSE r

\* The close handler destroying the response handler without flushing it.
FlushHandlerDestroyOnly(r) == IF r.hasHandler THEN destroy(r) ELSE r

\* The close handler flushing the response handler twice.
FlushHandlerTwice(r) == IF r.hasHandler THEN destroy(forceFlush(forceFlush(r))) ELSE r

\* Lines 1306-1310
FlushHandler(r) == IF r.hasHandler THEN destroy(forceFlush(r)) ELSE r

\* The assistant message persisted whether or not a response was accumulated.
PersistResponseAlways(ss, r, t) ==
  addMessage(ss, FinalSessionId(r), "assistant", r.fullResponse, t)

\* A close handler that persists no response.
PersistResponseNever(ss, r, t) == ss

\* Lines 1316-1319
PersistResponse(ss, r, t) ==
  IF FinalSessionId(r) # None /\ r.fullResponse # <<>>
    THEN addMessage(ss, FinalSessionId(r), "assistant", r.fullResponse, t)
    ELSE ss

\* The stderr of codex reported whatever the exit code.
CodexStderrReportAnyCode(r, code) ==
  IF r.cliProvider = "codex" /\ Trim(r.codexStderrBuffer) # <<>>
    THEN Send(r, "error", ErrorData("stderr", Trim(r.codexStderrBuffer)))
    ELSE r

\* Lines 1321-1326
CodexStderrReport(r, code) ==
  IF r.cliProvider = "codex" /\ code # "0" /\ Trim(r.codexStderrBuffer) # <<>>
    THEN Send(r, "error", ErrorData("stderr", Trim(r.codexStderrBuffer)))
    ELSE r

\* Lines 1328-1336
OllamaResponse(r) ==
  IF r.cliProvider = "ollama" /\ Trim(r.fullResponse) # <<>>
    THEN Send(r, "response", Trim(r.fullResponse))
    ELSE r

\* A close handler that sends no complete event.
SendNoComplete(r, code) == r

\* Lines 1338-1342
SendComplete(r, code) ==
  Send(r, "complete",
       [exitCode |-> code,
        isNewSession |-> (r.sessionId = None /\ r.command # <<>>)])

\* Lines 1344-1356: whether the staging directory is removed (fs.rm with
\* recursive and force), and the files that are left.
RemovesDir(r) == r.tempImagePaths # <<>> /\ r.tempDir # None

FilesAfterCleanup(files, r) ==
  { f \in files :
      /\ f \notin Range(r.tempImagePaths)
      /\ ~(RemovesDir(r) /\ IsPrefix(r.tempDir, f)) }

DirsAfterCleanup(dirs, r) == IF RemovesDir(r) THEN dirs \ {r.tempDir} ELSE dirs

\* A close handler that resolves whatever the exit code.
SettleResolved(r, outcome) ==
  IF r.promise = "pending" THEN [r EXCEPT !.promise = "resolved"] ELSE r

\* resolve() or reject(): a settled promise stays as it is.
Settle(r, outcome) == IF r.promise = "pending" THEN [r EXCEPT !.promise = outcome] ELSE r

\* The exit codes 'close' can report: the code the process exits with, null
\* when a signal ended it, and the negative errno when it never started.
CloseCodes(r) ==
  IF ~r.spawnOk THEN {"-2"}
  ELSE (IF profile = "concurrent" THEN {"0"} ELSE ExitCodes)
         \cup (IF r.signals # {} THEN {"null"} ELSE {})

\* geminiProcess.on('close'), lines 1292-1363
Close(t, code) ==
  /\ turn[t].pc = "running"
  /\ turn[t].spawnOk \/ turn[t].errored
  /\ code \in CloseCodes(turn[t])
  /\ LET r1 == FlushHandler(TrailingCodexLine(clearTimeout(turn[t])))
         r2 == SendComplete(OllamaResponse(CodexStderrReport(r1, code)), code)
     IN  /\ activeGeminiProcesses' = MapDelete(activeGeminiProcesses, FinalSessionId(r1))
         /\ sessions' = PersistResponse(sessions, r1, t)
         /\ fsFiles' = FilesAfterCleanup(fsFiles, r1)
         /\ fsDirs' = DirsAfterCleanup(fsDirs, r1)
         /\ turn' = [turn EXCEPT ![t] =
              [Settle(r2, IF code = "0" THEN "resolved" ELSE "rejected")
                 EXCEPT !.pc = "closed", !.closeCode = code]]
  /\ UNCHANGED <<profile, now, graceTimers, abortLog>>

\* ------------------------------------------------------------- error handler
\* geminiProcess.on('error'), lines 1366-1379, for a process that could not
\* be started.  Node emits 'error' and then 'close' for it.
SpawnError(t) ==
  /\ turn[t].pc = "running"
  /\ ~turn[t].spawnOk
  /\ ~turn[t].errored
  /\ activeGeminiProcesses' = MapDelete(activeGeminiProcesses, FinalSessionId(turn[t]))
  /\ turn' = [turn EXCEPT ![t] =
       Settle(Send([@ EXCEPT !.errored = TRUE], "error", ErrorData("spawn", <<>>)),
              "rejected")]
  /\ UNCHANGED <<profile, now, sessions, fsDirs, fsFiles, graceTimers, abortLog>>

\* -------------------------------------------------------- abortGeminiSession
\* Lines 1398-1410: the key the lookup ends on, None when no process is found.
RECURSIVE FirstMatch(_, _, _)
FirstMatch(m, i, sessionId) ==
  IF i > Len(m) THEN 0
  ELSE IF Includes(m[i].key, sessionId) \/ Includes(sessionId, m[i].key) THEN i
  ELSE FirstMatch(m, i + 1, sessionId)

\* A lookup by exact key only.
LookUpExact(m, sessionId) == IF MapHas(m, sessionId) THEN MapIdx(m, sessionId) ELSE 0

\* The index of the registry entry abortGeminiSession acts on, 0 for none.
LookUp(m, sessionId) ==
  IF MapHas(m, sessionId) THEN MapIdx(m, sessionId) ELSE FirstMatch(m, 1, sessionId)

\* A key the lookup of abortGeminiSession(sessionId) can end on.
Resolvable(key, sessionId) ==
  key = sessionId \/ Includes(key, sessionId) \/ Includes(sessionId, key)

\* process.kill(signal): a process that is gone is not signalled.
Kill(r, signal) ==
  IF r.pc = "running" /\ r.spawnOk THEN [r EXCEPT !.signals = @ \cup {signal}] ELSE r

\* The session ids a client can ask to abort.
AbortIds ==
  {None} \cup DOMAIN sessions \cup MapKeys(activeGeminiProcesses)
         \cup { NowString(c) : c \in 1..MaxClock }

abortGeminiSession(sessionId) ==
  /\ Len(abortLog) < MaxAborts
  /\ LET i == LookUp(activeGeminiProcesses, sessionId)
     IN  IF i # 0
           THEN LET e == activeGeminiProcesses[i]
                IN  /\ turn' = [turn EXCEPT ![e.val] = Kill(@, "SIGTERM")]
                    /\ graceTimers' = Append(graceTimers,
                         [processKey |-> e.key, process |-> e.val,
                          entry |-> Len(abortLog) + 1])
                    /\ activeGeminiProcesses' = MapDelete(activeGeminiProcesses, e.key)
                    /\ abortLog' = Append(abortLog,
                         [sessionId |-> sessionId, returned |-> TRUE,
                          process |-> e.val, processKey |-> e.key,
                          keys |-> MapKeys(activeGeminiProcesses),
                          exited |-> ~(turn[e.val].pc = "running" /\ turn[e.val].spawnOk),
                          captured |-> turn[e.val].capturedSessionId,
                          graceOver |-> FALSE, newTurn |-> FALSE,
                          resolvable |-> FALSE, killed |-> FALSE])
           ELSE /\ abortLog' = Append(abortLog,
                         [sessionId |-> sessionId, returned |-> FALSE,
                          process |-> 0, processKey |-> None,
                          keys |-> MapKeys(activeGeminiProcesses),
                          exited |-> FALSE, captured |-> None,
                          graceOver |-> TRUE, newTurn |-> FALSE,
                          resolvable |-> FALSE, killed |-> FALSE])
                /\ UNCHANGED <<turn, graceTimers, activeGeminiProcesses>>
  /\ UNCHANGED <<profile, now, sessions, fsDirs, fsFiles>>

\* The setTimeout callback of lines 1419-1428, 2 seconds after the abort.
GraceFire ==
  /\ graceTimers # <<>>
  /\ LET g    == Head(graceTimers)
         has  == MapHas(activeGeminiProcesses, g.processKey)
     IN  /\ turn' = IF has THEN [turn EXCEPT ![g.process] = Kill(@, "SIGKILL")] ELSE turn
         /\ abortLog' = [abortLog EXCEPT ![g.entry] =
              [@ EXCEPT !.graceOver = TRUE,
                        !.killed = has,
                        !.resolvable =
                           \E k \in MapKeys(activeGeminiProcesses) :
                              Resolvable(k, abortLog[g.entry].sessionId)]]
  /\ graceTimers' = Tail(graceTimers)
  /\ UNCHANGED <<profile, now, activeGeminiProcesses, sessions, fsDirs, fsFiles>>
  /\ UNCHANGED browserVars

\* ---------------------------------------------------------------------- Next
\* Each handler with its inputs: any turn, any value the caller or the process
\* can supply.
Starts ==
  /\ UNCHANGED browserVars
  /\ \E t \in TurnSlots, sessionId \in SessionIds, tag \in ProviderTags,
        command \in Commands, images \in ImageLists, settings \in ToolsSettings :
        StartTurn(t, sessionId, tag, command, images, settings)

Spawns ==
  /\ UNCHANGED browserVars
  /\ \E t \in TurnSlots, spawned \in SpawnOutcomes : SpawnTurn(t, spawned)

StdoutData ==
  /\ UNCHANGED browserVars
  /\ \E t \in TurnSlots :
        \E rawOutput \in Chunks(turn[t].cliProvider, turn[t].written) : Stdout(t, rawOutput)

StderrData ==
  /\ UNCHANGED browserVars
  /\ \E t \in TurnSlots, errorMsg \in StderrMessages : Stderr(t, errorMsg)

DebounceFires ==
  /\ UNCHANGED browserVars
  /\ \E t \in TurnSlots : DebounceFire(t)

MaxWaitFires ==
  /\ UNCHANGED browserVars
  /\ \E t \in TurnSlots : MaxWaitFire(t)

TimeoutFires ==
  /\ UNCHANGED browserVars
  /\ \E t \in TurnSlots : TimeoutFire(t)

SpawnErrors ==
  /\ UNCHANGED browserVars
  /\ \E t \in TurnSlots : SpawnError(t)

Closes ==
  /\ UNCHANGED browserVars
  /\ \E t \in TurnSlots : \E code \in CloseCodes(turn[t]) : Close(t, code)

Aborts ==
  /\ UNCHANGED browserVars
  /\ \E sessionId \in AbortIds : abortGeminiSession(sessionId)

\* One turn from its call to the end of its process.
TurnStep == Starts \/ Spawns \/ StdoutData \/ DebounceFires \/ MaxWaitFires \/ Closes

Next == TurnStep \/ TimeoutFires \/ StderrData \/ SpawnErrors \/ Tick

NextStream == TurnStep

NextAbort == TurnStep \/ TimeoutFires \/ SpawnErrors \/ Aborts \/ GraceFire \/ Tick

NextConcurrent == TurnStep \/ Aborts \/ GraceFire \/ Tick

\* One turn: its options, its process and every way it ends.
Spec == Init /\ [][Next]_vars

\* One turn: every line a process writes and every split of its output.
SpecStream == InitStream /\ [][NextStream]_vars

\* One turn and abortGeminiSession.
SpecAbort == InitAbort /\ [][NextAbort]_vars

\* MaxTurns turns at once, and abortGeminiSession.
SpecConcurrent == InitConcurrent /\ [][NextConcurrent]_vars

\* A process that was sent a signal ends, and Node emits 'close' for it.
SignalledCloses ==
  /\ UNCHANGED browserVars
  /\ \E t \in TurnSlots :
        /\ turn[t].signals # {}
        /\ \E code \in CloseCodes(turn[t]) : Close(t, code)

NextTimeout == TurnStep \/ TimeoutFires \/ StderrData

\* One turn and its timeout timer, where a signalled process does not run
\* for ever.
SpecTimeout == InitTimeout /\ [][NextTimeout]_vars /\ WF_vars(SignalledCloses)

NextTools == TurnStep

\* One turn and its tools settings.
SpecTools == InitTools /\ [][NextTools]_vars

\* =================================================================== claims
Closed(t) == turn[t].pc = "closed"

Spawned(t) == turn[t].pc \in {"running", "closed"}

Events(t, type) == SelectSeq(turn[t].sink, LAMBDA e : e.type = type)

ErrorsOf(t, kind) ==
  SelectSeq(turn[t].sink, LAMBDA e : e.type = "error" /\ e.data.kind = kind)

\* What is left of the staging of turn t: its directory and the files in it.
Staged(t) ==
  IF turn[t].tempDir = None THEN {}
  ELSE (fsDirs \cap {turn[t].tempDir})
         \cup { f \in fsFiles : IsPrefix(turn[t].tempDir, f) }
         \cup (fsFiles \cap Range(turn[t].tempImagePaths))

\* C1: once a turn has ended (exit 0, another exit code, after a timeout or
\* after a failed spawn) neither a file it staged nor its staging directory
\* exists.
C1_StagingRemoved == \A t \in Turns : Closed(t) => Staged(t) = {}

\* C2: when the grace period of an abort that returned true is over, and no
\* turn was started in between, no key of the registry can be resolved from
\* the session id that was given to the abort.
C2_AbortUnregisters ==
  \A i \in 1..Len(abortLog) :
     (abortLog[i].returned /\ abortLog[i].graceOver /\ ~abortLog[i].newTurn)
        => ~abortLog[i].resolvable

\* ------------------------------------------------------------------------ C3
\* The timer has fired exactly when one timeout error is in the sink, and
\* then the process was sent SIGTERM; there is never more than one.
TimeoutSurfaced ==
  \A t \in Turns :
     /\ Len(ErrorsOf(t, "timeout")) <= 1
     /\ turn[t].timeout = "fired"
          <=> (Len(ErrorsOf(t, "timeout")) = 1 /\ "SIGTERM" \in turn[t].signals)
     /\ turn[t].timeout = "cleared" => Len(ErrorsOf(t, "timeout")) = 0

\* A timer that was cleared, by the first stdout data or by the close
\* handler, never fires.
ClearedStaysCleared ==
  \A t \in Turns : turn[t].timeout = "cleared" => turn'[t].timeout = "cleared"

Fatal(t) ==
  /\ Closed(t)
  /\ ~turn[t].spawnOk \/ turn[t].timeout = "fired" \/ turn[t].closeCode # "0"

LastEvent(t) == turn[t].sink[Len(turn[t].sink)]

\* C4 as stated: every turn that ended with a fatal error has exactly one
\* error event in its sink and after it exactly one complete event, whose
\* exit code is not 0.
C4_OneErrorThenComplete ==
  \A t \in Turns :
     Fatal(t) =>
        /\ Len(Events(t, "error")) = 1
        /\ Len(Events(t, "complete")) = 1
        /\ LastEvent(t).type = "complete"
        /\ LastEvent(t).data.exitCode # "0"

\* C4, amended: a turn has one complete event exactly when its process has
\* closed, it is the last event of the turn and carries the code 'close'
\* reported; a failed spawn has exactly one error event before it (and a
\* code that is not 0), a fired timeout exactly one timeout error before it.
C4_CompleteLast ==
  \A t \in Turns :
     /\ ~Closed(t) => Len(Events(t, "complete")) = 0
     /\ Closed(t) =>
          /\ Len(Events(t, "complete")) = 1
          /\ LastEvent(t).type = "complete"
          /\ LastEvent(t).data.exitCode = turn[t].closeCode
          /\ ~turn[t].spawnOk =>
               /\ Len(Events(t, "error")) = 1
               /\ Len(ErrorsOf(t, "spawn")) = 1
               /\ turn[t].closeCode # "0"
          /\ turn[t].timeout = "fired" => Len(ErrorsOf(t, "timeout")) = 1

C4_Witness ==
  \E t \in Turns :
     /\ Fatal(t)
     /\ turn[t].closeCode = "1"
     /\ Len(Events(t, "error")) = 0

\* ------------------------------------------------------------------------ C5
\* The texts of the increments the response buffer of turn t has emitted.
Increments(t) ==
  LET e == Events(t, "response") IN [i \in 1..Len(e) |-> e[i].data]

\* C5: the increments the response buffer has emitted, concatenated in the
\* order they left, followed by what it still holds, are the texts given to
\* processData concatenated in call order; after the forceFlush of the close
\* handler it holds nothing, so the increments alone are those texts.
C5_IncrementsAreInput ==
  \A t \in Turns :
     turn[t].hasHandler =>
        /\ Concat(Increments(t)) \o turn[t].acc = Concat(turn[t].fed)
        /\ Closed(t) => (turn[t].acc = <<>> /\ turn[t].flushes = 1)

C5_Witness ==
  \E t \in Turns :
     /\ Closed(t)
     /\ turn[t].hasHandler
     /\ Len(turn[t].fed) >= 3
     /\ Len(Increments(t)) = 2

\* ------------------------------------------------------------------------ C6
\* The lines of a stream that are complete: all but what follows the last
\* newline.
CompleteLines(written) ==
  LET lines == SplitNL(written) IN SubSeq(lines, 1, Len(lines) - 1)

\* The event the claim names for one complete line, as a sequence: empty for
\* a line that is not JSON and for a thread.started line that has no thread
\* id to yield.
LineEvent(line) ==
  IF ~IsJson(line) THEN <<>>
  ELSE IF line[1].k = "ts"
    THEN IF line[1].v = "" THEN <<>>
         ELSE <<[kind |-> "correlation", data |-> <<line[1].v>>]>>
  ELSE IF line[1].k = "am" THEN <<[kind |-> "chunk", data |-> MessageText(line[1].v)]>>
  ELSE <<[kind |-> "error", data |-> <<line[1].v>>]>>

LineEvents(lines) == Concat([i \in 1..Len(lines) |-> LineEvent(lines[i])])

\* An event the handler passes on: an agent_message item whose text is
\* empty or missing yields no chunk.
Carries(e) == e.kind = "chunk" => e.data # <<>>

SessionsBy(t) == { id \in DOMAIN sessions : sessions[id].by = t }

\* The sessions that hold a message of turn t.
MessagesBy(t) ==
  { id \in DOMAIN sessions :
      \E i \in 1..Len(sessions[id].messages) : sessions[id].messages[i].by = t }

\* C7: a turn started without a session id whose process has written
\* nothing to stdout has created no session and appended no message,
\* however it ends.
C7_NoOutputNoSession ==
  \A t \in Turns :
     (Spawned(t) /\ turn[t].sessionId = None /\ ~turn[t].hasReceivedOutput)
        => (SessionsBy(t) = {} /\ MessagesBy(t) = {})

C7_Witness ==
  \E t \in Turns :
     /\ Closed(t)
     /\ turn[t].sessionId = None
     /\ turn[t].command # <<>>
     /\ ~turn[t].hasReceivedOutput
     /\ turn[t].timeout = "fired"

\* ------------------------------------------------------------------------ C8
\* C8: a turn started without a session id has sent session-created, and
\* created a session, once from its first stdout data callback on and not
\* before; a turn started with a session id never does either.
C8_SessionCreatedOnce ==
  \A t \in Turns :
     LET n == Len(Events(t, "session-created"))
     IN  IF turn[t].sessionId = None
           THEN /\ n = (IF turn[t].nStdout >= 1 THEN 1 ELSE 0)
                /\ Cardinality(SessionsBy(t)) = n
           ELSE n = 0 /\ SessionsBy(t) = {}

C8_Witness ==
  \E t \in Turns :
     /\ turn[t].sessionId = None
     /\ turn[t].nStdout >= 2
     /\ Len(Events(t, "session-created")) = 1

\* ------------------------------------------------------------------------ C9
\* Turn t was running when an abort signalled it.
Aborted(t) ==
  \E i \in 1..Len(abortLog) :
     abortLog[i].returned /\ abortLog[i].process = t /\ ~abortLog[i].exited

\* The close handler has persisted the response of turn t.
ResponsePersisted(t) ==
  LET id == FinalSessionId(turn[t])
  IN  /\ id \in DOMAIN sessions
      /\ \E i \in 1..Len(sessions[id].messages) :
            sessions[id].messages[i] =
               [role |-> "assistant", text |-> turn[t].fullResponse, by |-> t]

\* C9: a turn that was aborted while running and has closed has had its
\* response buffer flushed, its accumulated response persisted, its staging
\* removed and its complete event sent.
C9_AbortedTurnCleansUp ==
  \A t \in Turns :
     (Aborted(t) /\ Closed(t)) =>
        /\ turn[t].hasHandler => (turn[t].flushes = 1 /\ turn[t].acc = <<>>)
        /\ turn[t].fullResponse # <<>> => ResponsePersisted(t)
        /\ Staged(t) = {}
        /\ Len(Events(t, "complete")) = 1

\* ----------------------------------------------------------------------- C10
\* C10: the command of a codex turn bound to a session never has both the
\* rebuilt transcript in its prompt and the resume arguments.
C10_TranscriptOrResume ==
  \A t \in Turns :
     (Spawned(t) /\ turn[t].cliProvider = "codex" /\ turn[t].sessionId # None)
        => ~(turn[t].promptCtx /\ turn[t].argsResume # None)

RunningUnaborted(t) ==
  /\ turn[t].pc = "running"
  /\ turn[t].spawnOk
  /\ \A i \in 1..Len(abortLog) : ~(abortLog[i].returned /\ abortLog[i].process = t)

Registered(t) ==
  \E i \in 1..Len(activeGeminiProcesses) : activeGeminiProcesses[i].val = t

\* C12: every running process that was not aborted is the value of a key of
\* the registry, whatever the other turns do.
C12_RunningRegistered == \A t \in Turns : RunningUnaborted(t) => Registered(t)

\* ----------------------------------------------------------------------- C13
\* The place of the complete event in the sink of turn t, 0 if it has none.
CompleteAt(t) ==
  IF \E i \in 1..Len(turn[t].sink) : turn[t].sink[i].type = "complete"
    THEN CHOOSE i \in 1..Len(turn[t].sink) : turn[t].sink[i].type = "complete"
    ELSE 0

\* C13: forceFlush has been called once when the complete event is in the
\* sink and not before the close handler; the buffer then holds nothing,
\* and everything given to it is in the responses that precede complete.
C13_FlushedOnceBeforeComplete ==
  \A t \in Turns :
     IF CompleteAt(t) = 0 THEN turn[t].flushes = 0
     ELSE /\ turn[t].flushes = 1
          /\ turn[t].acc = <<>>
          /\ \A i \in 1..Len(turn[t].sink) :
                turn[t].sink[i].type = "response" => i < CompleteAt(t)
          /\ Concat(Increments(t)) = Concat(turn[t].fed)

\* The forceFlush of the close handler had a remainder to deliver.
C13_Witness ==
  \E t \in Turns :
     /\ CompleteAt(t) > 1
     /\ turn[t].sink[CompleteAt(t) - 1].type = "response"
     /\ Len(turn[t].fed) >= 2
     /\ Len(Increments(t)) = 1

\* ----------------------------------------------------------------------- C14
TimeoutErrorCount(r) ==
  Len(SelectSeq(r.sink, LAMBDA e : e.type = "error" /\ e.data.kind = "timeout"))

\* C14: once the process of a turn has written to stdout or to stderr, the
\* timer adds no timeout error to the sink and does not fire its kill.
C14_NoTimeoutAfterOutput ==
  [][\A t \in Turns :
        (turn[t].hasReceivedOutput \/ turn[t].nStderr > 0) =>
           /\ TimeoutErrorCount(turn'[t]) = TimeoutErrorCount(turn[t])
           /\ turn'[t].timeout = "fired" => turn[t].timeout = "fired"]_vars

\* ----------------------------------------------------------------------- C15
\* The places of the error events of stdout in the sink, and in the events
\* of the normalizer.
SinkErrorsAt(t) ==
  { i \in 1..Len(turn[t].sink) :
      turn[t].sink[i].type = "error" /\ turn[t].sink[i].data.kind = "event" }

NormErrorsAt(t) == { i \in 1..Len(turn[t].norm) : turn[t].norm[i].kind = "error" }

\* The k-th place of a set of places.
Kth(places, k) == CHOOSE i \in places : Cardinality({ j \in places : j <= i }) = k

\* The response text the sink has received before its place i, and the chunk
\* text the stream held before place i of the normalizer's events.
SinkTextBefore(t, i) ==
  Concat([j \in 1..(i - 1) |->
            IF turn[t].sink[j].type = "response" THEN turn[t].sink[j].data ELSE <<>>])

NormTextBefore(t, i) ==
  Concat([j \in 1..(i - 1) |->
            IF turn[t].norm[j].kind = "chunk" THEN turn[t].norm[j].data ELSE <<>>])

\* C15: when the sink receives the error of an error line of stdout, it has
\* received the text of every agent message that precedes the line in the
\* stream, and of no later one.
C15_StdoutOrder ==
  \A t \in Turns :
     /\ Cardinality(SinkErrorsAt(t)) = Cardinality(NormErrorsAt(t))
     /\ \A k \in 1..Cardinality(NormErrorsAt(t)) :
           SinkTextBefore(t, Kth(SinkErrorsAt(t), k))
              = NormTextBefore(t, Kth(NormErrorsAt(t), k))

\* ----------------------------------------------------------------------- C16
\* The assistant messages turn t has appended: session id and place.
AssistantBy(t) ==
  UNION { { <<id, i>> : i \in { j \in 1..Len(sessions[id].messages) :
                                  /\ sessions[id].messages[j].by = t
                                  /\ sessions[id].messages[j].role = "assistant" } } :
          id \in DOMAIN sessions }

\* C16: a turn that has ended, however it ended, has appended its
\* accumulated response to its session as one assistant message if the
\* response is not empty, and no assistant message otherwise; before its end
\* it has appended none.
C16_PartialResponsePersisted ==
  \A t \in Turns :
     IF Closed(t) /\ turn[t].fullResponse # <<>>
       THEN /\ Cardinality(AssistantBy(t)) = 1
            /\ \A m \in AssistantBy(t) :
                  /\ m[1] = FinalSessionId(turn[t])
                  /\ sessions[m[1]].messages[m[2]].text = turn[t].fullResponse
       ELSE AssistantBy(t) = {}

\* An aborted turn, ended by the signal, with a response.
C16_Witness ==
  \E t \in Turns :
     /\ Closed(t)
     /\ Aborted(t)
     /\ turn[t].closeCode = "null"
     /\ turn[t].sessionId # None
     /\ turn[t].fullResponse # <<>>

\* ----------------------------------------------------------------------- C17
\* C17 as stated: no process is spawned for a turn whose provider tag is
\* not a known provider.
C17_UnknownRejected ==
  \A t \in Turns : turn[t].tag \notin KnownProviders => ~Spawned(t)

\* C17, amended: a turn whose provider tag is not a known provider runs as
\* a turn of the default provider, gemini, and is resolved when its process
\* exits with 0 like any other turn.
C17_UnknownRunsDefault ==
  \A t \in Turns :
     turn[t].pc # "idle" =>
        /\ turn[t].cliProvider =
             (IF turn[t].tag \in KnownProviders THEN turn[t].tag ELSE "gemini")
        /\ (Closed(t) /\ turn[t].closeCode = "0") => turn[t].promise = "resolved"

C17_Witness ==
  \E t \in Turns :
     /\ turn[t].tag \notin KnownProviders
     /\ Closed(t)
     /\ turn[t].closeCode = "0"
     /\ turn[t].hasReceivedOutput

\* ----------------------------------------------------------------------- C18
\* C18: the registry holds no entry for the process of a turn whose close
\* handler or error handler has run, or that an abort has found.
C18_GoneAfterExitOrAbort ==
  \A t \in Turns :
     (\/ Closed(t)
      \/ turn[t].errored
      \/ \E i \in 1..Len(abortLog) : abortLog[i].returned /\ abortLog[i].process = t)
        => ~Registered(t)

\* ----------------------------------------------------------------------- C19
\* The path attachment i of turn t is staged under.
AttachmentPath(t, i) == ImagePath(turn[t].tempDir, i - 1)

\* C19: every well-formed attachment of a spawned turn is staged and passed
\* to the agent (in the --image argument for codex, in the note appended to
\* the prompt for the others), whatever the other attachments are.
C19_ValidAttachmentsPassed ==
  \A t \in Turns :
     Spawned(t) =>
        \A i \in 1..Len(turn[t].images) :
           turn[t].images[i] = "ok" =>
              /\ AttachmentPath(t, i) \in Range(turn[t].tempImagePaths)
              /\ AttachmentPath(t, i) \in fsFiles \/ Closed(t)
              /\ IF turn[t].cliProvider = "codex"
                   THEN AttachmentPath(t, i) \in Range(turn[t].argsImages)
                   ELSE AttachmentPath(t, i) \in Range(turn[t].promptNote)

\* ----------------------------------------------------------------------- C20
\* The stderr writes of turn t that are not benign noise.
NotBenign(t) == SelectSeq(turn[t].stderrLog, LAMBDA e : ~IsBenign(e))

StderrErrorTexts(t) ==
  LET e == ErrorsOf(t, "stderr") IN [i \in 1..Len(e) |-> e[i].data.text]

\* C20: the stderr of a codex turn gives no error event while the process
\* runs and none after exit code 0; after another exit code it gives one
\* error event with all of it, if there is any.  For the other providers
\* the error events of stderr are the writes that are not benign, one each.
C20_StderrRouting ==
  \A t \in Turns :
     IF turn[t].cliProvider = "codex"
       THEN StderrErrorTexts(t) =
              (IF Closed(t) /\ turn[t].closeCode # "0" /\ NotBenign(t) # <<>>
                 THEN <<Concat(NotBenign(t))>> ELSE <<>>)
       ELSE StderrErrorTexts(t) = NotBenign(t)

C20_Witness ==
  \E t \in Turns :
     /\ turn[t].cliProvider = "codex"
     /\ Closed(t)
     /\ turn[t].closeCode = "0"
     /\ NotBenign(t) # <<>>
     /\ ErrorsOf(t, "stderr") = <<>>

\* ----------------------------------------------------------------------- C21
\* C21: a turn requested for the ollama provider has no response event in
\* its sink while its process runs, and once the process has closed at most
\* one, which comes before the complete event.
C21_OllamaBatch ==
  \A t \in Turns :
     turn[t].tag = "ollama" =>
        /\ ~Closed(t) => Events(t, "response") = <<>>
        /\ Closed(t) =>
             /\ Len(Events(t, "response")) <= 1
             /\ \A i \in 1..Len(turn[t].sink) :
                   turn[t].sink[i].type = "response" => i < CompleteAt(t)

\* ----------------------------------------------------------------------- C22
\* The tokens of a text that belong to a line holding a debug marker, and
\* those that belong to an ordinary line.
MarkedPart(s) == SelectSeq(s, LAMBDA x : x.k = "dbg")

OrdinaryPart(s) == SelectSeq(s, LAMBDA x : x.k = "txt")

\* The texts of the assistant messages turn t has persisted.
PersistedTexts(t) == { sessions[m[1]].messages[m[2]].text : m \in AssistantBy(t) }

\* C22: whatever the split of its stdout into data callbacks, no part of a
\* line that holds a debug marker is in the responses of a gemini turn, in
\* its accumulated response or in the assistant text it has persisted; once
\* the turn has closed, every ordinary line it wrote is in its responses and
\* in the assistant text.
C22_MarkedLinesFiltered ==
  \A t \in Turns :
     turn[t].cliProvider = "gemini" =>
        /\ MarkedPart(Concat(Increments(t))) = <<>>
        /\ MarkedPart(turn[t].fullResponse) = <<>>
        /\ \A text \in PersistedTexts(t) : MarkedPart(text) = <<>>
        /\ Closed(t) =>
             /\ OrdinaryPart(Concat(Increments(t))) = OrdinaryPart(turn[t].written)
             /\ OrdinaryPart(turn[t].fullResponse) = OrdinaryPart(turn[t].written)

\* ----------------------------------------------------------------------- C23
\* The thread ids of the thread.started events of turn t, in stream order.
ThreadIds(t) ==
  LET e == SelectSeq(turn[t].norm, LAMBDA x : x.kind = "correlation")
  IN  [i \in 1..Len(e) |-> e[i].data]

\* C23: once a turn has a session, the external correlation id of the
\* session is the thread id of the first thread.started event of the turn,
\* whatever thread.started events follow it.
C23_FirstThreadIdKept ==
  \A t \in Turns :
     (ThreadIds(t) # <<>> /\ turn[t].capturedSessionId \in DOMAIN sessions)
        => sessions[turn[t].capturedSessionId].externalSessionId = ThreadIds(t)[1]

\* ----------------------------------------------------------------------- C24
\* A process was registered for sessionId when call i of abortGeminiSession
\* was made: under sessionId itself, or under a key that contains it or is
\* contained in it.
FoundAt(i) ==
  \E k \in abortLog[i].keys : Resolvable(k, abortLog[i].sessionId)

C25_AllowListDeduplicated ==
  \A t \in Turns :
     (Spawned(t) /\ turn[t].cliProvider = "gemini"
                /\ ~turn[t].settings.skipPermissions) =>
        LET list == turn[t].argsAllowedTools
        IN  /\ Range(list) = Range(criticalTools) \cup Range(turn[t].settings.allowedTools)
            /\ \A i, j \in 1..Len(list) : list[i] = list[j] => i = j

\* ----------------------------------------------------------------------- C26
\* The process call i of abortGeminiSession found is still running.
StillRunning(i) ==
  /\ turn[abortLog[i].process].pc = "running"
  /\ turn[abortLog[i].process].spawnOk

\* C26: a process that abortGeminiSession found and that is still running
\* when the grace period is over has been sent SIGKILL.
C26_ForcedKillAfterGrace ==
  \A i \in 1..Len(abortLog) :
     (abortLog[i].returned /\ abortLog[i].graceOver /\ StillRunning(i))
        => "SIGKILL" \in turn[abortLog[i].process].signals

\* ----------------------------------------------------------------------- C27
\* The ids the process that call i found went by when the call was made:
\* the session id of its turn and the key it was registered with at spawn.
IdsOfFound(i) ==
  {abortLog[i].captured, turn[abortLog[i].process].processKey} \ {None}

\* C27: the process a call of abortGeminiSession has signalled and
\* unregistered is one of the session the call names.
C27_AbortsOwnSessionOnly ==
  \A i \in 1..Len(abortLog) :
     abortLog[i].returned => abortLog[i].sessionId \in IdsOfFound(i)

\* ----------------------------------------------------------------------- C28
\* Turn t was started without a session id and its process is running.
RunningSessionless(t) == turn[t].pc = "running" /\ turn[t].sessionId = None

\* C28: two turns without session id whose processes run at the same time
\* were registered under different synthetic keys, and the session ids
\* generated for them differ.
C28_DistinctKeysAndIds ==
  \A t1, t2 \in Turns :
     (t1 # t2 /\ RunningSessionless(t1) /\ RunningSessionless(t2)) =>
        /\ turn[t1].processKey # turn[t2].processKey
        /\ turn[t1].capturedSessionId # None =>
             turn[t1].capturedSessionId # turn[t2].capturedSessionId

\* ----------------------------------------------------------------------- C29
\* A text without the newlines that join the messages it is made of.
NoNewlines(s) == SelectSeq(s, LAMBDA x : x # NLTok)

\* C29: when a codex, gemini or claude turn has closed, the assistant text it
\* has persisted is made of the texts the sink received as responses, in
\* the same order, and it has persisted none when the sink received none.
C29_PersistedIsDelivered ==
  \A t \in Turns :
     (Closed(t) /\ turn[t].cliProvider \in {"codex", "gemini", "claude"}) =>
        /\ \A text \in PersistedTexts(t) :
              NoNewlines(text) = NoNewlines(Concat(Increments(t)))
        /\ PersistedTexts(t) = {} => Concat(Increments(t)) = <<>>

\* ----------------------------------------------------------------------- C30
\* The turn has sent session-created before its complete event.
SessionCreatedBeforeComplete(t) ==
  \E i \in 1..(CompleteAt(t) - 1) : turn[t].sink[i].type = "session-created"

\* C30: the complete event of a turn has isNewSession true exactly when a
\* session-created event precedes it in the sink of the turn.
C30_NewSessionFlag ==
  \A t \in Turns :
     CompleteAt(t) # 0 =>
        (turn[t].sink[CompleteAt(t)].data.isNewSession
           <=> SessionCreatedBeforeComplete(t))

\* ----------------------------------------------------------------------- C31
\* The user messages turn t has appended: session id and place.
UserBy(t) ==
  UNION { { <<id, i>> : i \in { j \in 1..Len(sessions[id].messages) :
                                  /\ sessions[id].messages[j].by = t
                                  /\ sessions[id].messages[j].role = "user" } } :
          id \in DOMAIN sessions }

\* C31: a spawned turn with a command has appended it as a user message
\* once, to its own session, if it has a session (the caller's, or the one
\* created at its first stdout data) and not at all if it has none; a turn
\* without command appends no user message.
C31_PromptAppendedOnce ==
  \A t \in Turns :
     Spawned(t) =>
        IF turn[t].command # <<>> /\ turn[t].capturedSessionId # None
          THEN /\ Cardinality(UserBy(t)) = 1
               /\ \A m \in UserBy(t) :
                     /\ m[1] = turn[t].capturedSessionId
                     /\ sessions[m[1]].messages[m[2]].text = turn[t].command
          ELSE UserBy(t) = {}

\* A turn without session id whose session was created at its first stdout
\* data and that went on to a second callback.
C31_Witness ==
  \E t \in Turns :
     /\ turn[t].sessionId = None
     /\ turn[t].command # <<>>
     /\ turn[t].nStdout >= 2
     /\ Cardinality(UserBy(t)) = 1

\* ------------------------------------------------------------ webllmEngine.js
\* The model ids of webllm.prebuiltAppConfig.model_list, and what a caller
\* may ask for: one of them or an id that is not in the list.
ModelIds == {"m1", "m2"}

RequestedModels == ModelIds \cup {"mx"}

\* The entries of baseUrlCandidates: the fallback URL alone, or
\* VITE_WEBLLM_MODEL_BASE_URL before it.
BaseUrlCandidates == 1..2

\* The module's state as one value, and the step that installs one.
Service ==
  [engine |-> engine, currentModel |-> currentModel,
   isInitializing |-> isInitializing, initPromise |-> initPromise,
   calls |-> calls, unloads |-> unloads, microtasks |-> microtasks]

Becomes(s) ==
  /\ engine' = s.engine
  /\ currentModel' = s.currentModel
  /\ isInitializing' = s.isInitializing
  /\ initPromise' = s.initPromise
  /\ calls' = s.calls
  /\ unloads' = s.unloads
  /\ microtasks' = s.microtasks

\* getEngineStatus().
getEngineStatus(s) ==
  [isLoaded |-> s.engine # NoEngine, currentModel |-> s.currentModel,
   isInitializing |-> s.isInitializing]

\* The calls of initializeEngine that have resolved.
Resolved(s) == { i \in Calls : s.calls[i].pc = "resolved" }

\* initializeEngine returns, or throws error e (the error of the
\* initialization of call e).
Return(s, i) ==
  [s EXCEPT !.calls[i].pc = "resolved", !.calls[i].seen = getEngineStatus(s)]

Throw(s, i, e) ==
  [s EXCEPT !.calls[i].pc = "rejected", !.calls[i].error = e,
            !.calls[i].seen = getEngineStatus(s)]

\* An earlier import() has loaded the module '@mlc-ai/web-llm': the promise
\* of a later import() is fulfilled from the module map, without I/O.
ModuleLoaded(s) == \E i \in Calls : s.calls[i].imported

\* Call i from its second test to its next await: it returns if the engine
\* holds its model, and otherwise starts the async arrow function, which
\* runs to its await of import(), and awaits the promise of that function.
StartOrSkip(s, i) ==
  IF s.engine # NoEngine /\ s.currentModel = s.calls[i].modelId
    THEN Return(s, i)
    ELSE [s EXCEPT !.isInitializing = TRUE, !.initPromise = i,
                   !.calls[i].pc = IF ModuleLoaded(s) THEN "imported" ELSE "importing",
                   !.calls[i].promise = "pending",
                   !.calls[i].started = TRUE, !.calls[i].reactions = <<i>>,
                   !.microtasks =
                      IF ModuleLoaded(s)
                        THEN Append(@, [kind |-> "afterImport", call |-> i, of |-> i,
                                        ok |-> TRUE])
                        ELSE @]

\* The continuation of an await of the promise of call i: of call i itself
\* (its last line) or of a call that found it in initPromise.
Reaction(i, j) ==
  [kind |-> IF j = i THEN "afterInit" ELSE "afterWait", call |-> j, of |-> i,
   ok |-> TRUE]

\* The finally block of the arrow function of call i, and the settling of
\* its promise: the continuations of those that await it become ready.
SettleInit(s, i, ok) ==
  [s EXCEPT !.isInitializing = FALSE, !.initPromise = NoPromise,
            !.calls[i].pc = "settled",
            !.calls[i].promise = IF ok THEN "fulfilled" ELSE "rejected",
            !.microtasks = @ \o [n \in 1..Len(s.calls[i].reactions) |->
                                   Reaction(i, s.calls[i].reactions[n])]]

\* The end of the try block, and the catch block.
Succeed(s, i) ==
  SettleInit([s EXCEPT !.engine = i, !.currentModel = s.calls[i].modelId], i, TRUE)

\* The catch block without its two assignments.
FailKeepsEngine(s, i) == SettleInit(s, i, FALSE)

Fail(s, i) ==
  SettleInit([s EXCEPT !.engine = NoEngine, !.currentModel = NoModel], i, FALSE)

\* After import(): the test of the model id against the list, then the
\* first CreateMLCEngine.
AfterImport(s, i, ok) ==
  IF ~ok
    THEN Fail(s, i)
    ELSE IF s.calls[i].modelId \notin ModelIds
      THEN Fail([s EXCEPT !.calls[i].imported = TRUE], i)
      ELSE [s EXCEPT !.calls[i].pc = "creating", !.calls[i].imported = TRUE]

\* After a CreateMLCEngine: the engine is kept, or the next base URL is
\* tried (c candidates are built at the first failure), or the error is
\* thrown.
AfterCreate(s, i, ok, c) ==
  IF ok
    THEN Succeed(s, i)
    ELSE IF s.calls[i].attempt = 0
      THEN [s EXCEPT !.calls[i].pc = "creating", !.calls[i].attempt = 1,
                     !.calls[i].candidates = c]
      ELSE IF s.calls[i].attempt < s.calls[i].candidates
        THEN [s EXCEPT !.calls[i].pc = "creating", !.calls[i].attempt = @ + 1]
        ELSE Fail(s, i)

\* The same without the test of currentModel against the model of call j.
AfterWaitAnyModel(s, j, i) ==
  IF s.calls[i].promise = "rejected" THEN Throw(s, j, i) ELSE Return(s, j)

\* After the await of the first test, by call j, of the promise of call i.
AfterWait(s, j, i) ==
  IF s.calls[i].promise = "rejected"
    THEN Throw(s, j, i)
    ELSE IF s.currentModel = s.calls[j].modelId
      THEN Return(s, j)
      ELSE StartOrSkip(s, j)

\* After the await of the last line.
AfterInit(s, i) ==
  IF s.calls[i].promise = "rejected" THEN Throw(s, i, i) ELSE Return(s, i)

\* unloadEngine after its await of engine.unload(), whose failure it ignores.
AfterUnload(s, u) ==
  [s EXCEPT !.engine = NoEngine, !.currentModel = NoModel,
            !.unloads[u].pc = "done",
            !.unloads[u].undoes =
               IF s.engine # NoEngine
                 THEN Resolved(s) \ s.unloads[u].resolvedBefore
                 ELSE {}]

\* The state of the other modules.
ServiceOnly == UNCHANGED <<profile, serverVars, chat, projectVars>>

\* initializeEngine(modelId), to its first await.  Calls are made by tasks
\* (handlers of the page), so no continuation is ready when one is made.
initializeEngine(i, modelId) ==
  /\ profile = "webllm"
  /\ microtasks = <<>>
  /\ calls[i].pc = "idle"
  /\ \A j \in Calls : j < i => calls[j].pc # "idle"
  /\ LET s == [Service EXCEPT
                 !.calls[i].modelId = modelId,
                 !.calls[i].loadedAtCall =
                    engine # NoEngine /\ currentModel = modelId /\ ~isInitializing]
     IN  IF isInitializing /\ initPromise # NoPromise
           THEN Becomes([s EXCEPT !.calls[i].pc = "waiting",
                                  !.calls[i].awaited = initPromise,
                                  !.calls[initPromise].reactions = Append(@, i)])
           ELSE Becomes(StartOrSkip(s, i))
  /\ ServiceOnly

\* The promise of an import() that fetches the module settles, in a task of
\* its own: no continuation is ready when it does.
ImportSettle(i, ok) ==
  /\ profile = "webllm"
  /\ microtasks = <<>>
  /\ calls[i].pc = "importing"
  /\ calls' = [calls EXCEPT ![i].pc = "imported"]
  /\ microtasks' = Append(microtasks, [kind |-> "afterImport", call |-> i, of |-> i, ok |-> ok])
  /\ UNCHANGED <<engine, currentModel, isInitializing, initPromise, unloads>>
  /\ ServiceOnly

\* The promise of CreateMLCEngine settles, at the end of the I/O of a load:
\* in a task of its own.
CreateSettle(i, ok) ==
  /\ profile = "webllm"
  /\ microtasks = <<>>
  /\ calls[i].pc = "creating"
  /\ calls' = [calls EXCEPT ![i].pc = "created"]
  /\ microtasks' = Append(microtasks, [kind |-> "afterCreate", call |-> i, of |-> i, ok |-> ok])
  /\ UNCHANGED <<engine, currentModel, isInitializing, initPromise, unloads>>
  /\ ServiceOnly

\* unloadEngine(), to its await.
unloadEngine(u) ==
  /\ profile = "webllm"
  /\ microtasks = <<>>
  /\ unloads[u].pc = "idle"
  /\ unloads' = [unloads EXCEPT ![u] =
        [@ EXCEPT !.pc = IF engine # NoEngine THEN "unloading" ELSE "done",
                  !.resolvedBefore = Resolved(Service)]]
  /\ UNCHANGED <<engine, currentModel, isInitializing, initPromise, calls, microtasks>>
  /\ ServiceOnly

\* The promise of engine.unload() settles, in a task of its own.
UnloadSettle(u) ==
  /\ profile = "webllm"
  /\ microtasks = <<>>
  /\ unloads[u].pc = "unloading"
  /\ unloads' = [unloads EXCEPT ![u].pc = "unloaded"]
  /\ microtasks' = Append(microtasks, [kind |-> "afterUnload", call |-> u, of |-> u, ok |-> TRUE])
  /\ UNCHANGED <<engine, currentModel, isInitializing, initPromise, calls>>
  /\ ServiceOnly

\* The first ready continuation runs to its next await.
RunMicrotask ==
  /\ profile = "webllm"
  /\ microtasks # <<>>
  /\ LET m == Head(microtasks)
         s == [Service EXCEPT !.microtasks = Tail(microtasks)]
     IN  CASE m.kind = "afterImport" -> Becomes(AfterImport(s, m.call, m.ok))
           [] m.kind = "afterCreate" ->
                IF ~m.ok /\ calls[m.call].attempt = 0
                  THEN \E c \in BaseUrlCandidates : Becomes(AfterCreate(s, m.call, m.ok, c))
                  ELSE Becomes(AfterCreate(s, m.call, m.ok, 0))
           [] m.kind = "afterWait" -> Becomes(AfterWait(s, m.call, m.of))
           [] m.kind = "afterInit" -> Becomes(AfterInit(s, m.call))
           [] m.kind = "afterUnload" -> Becomes(AfterUnload(s, m.call))
  /\ ServiceOnly

InitializeEngines == \E i \in Calls, modelId \in RequestedModels : initializeEngine(i, modelId)

ImportSettles == \E i \in Calls, ok \in BOOLEAN : ImportSettle(i, ok)

CreateSettles == \E i \in Calls, ok \in BOOLEAN : CreateSettle(i, ok)

UnloadEngines == \E u \in Unloads : unloadEngine(u)

UnloadSettles == \E u \in Unloads : UnloadSettle(u)

InitWebllm == InitWith("webllm")

NextWebllm ==
  InitializeEngines \/ ImportSettles \/ CreateSettles \/ UnloadEngines
     \/ UnloadSettles \/ RunMicrotask

\* MaxCalls calls of initializeEngine and MaxUnloads of unloadEngine, in any
\* order the event loop allows.
SpecWebllm == InitWebllm /\ [][NextWebllm]_vars

\* The calls whose CreateMLCEngine is in flight.
InFlight == { i \in Calls : calls[i].pc = "creating" }

\* C32: at most one CreateMLCEngine call is in flight at any time.
C32_OneLoadInFlight == Cardinality(InFlight) <= 1

\* No call of unloadEngine has been made.
NoUnload == \A u \in Unloads : unloads[u].pc = "idle"

EmptyStatus == [isLoaded |-> FALSE, currentModel |-> NoModel, isInitializing |-> FALSE]

\* C34: a call whose load failed rejects with the error of that load and
\* finds, when it does, no engine, no current model and isInitializing
\* false; a call that waited for that initialization rejects with the same
\* error.
C34_FailedLoadRejects ==
  \A i \in Calls :
     /\ calls[i].promise = "rejected" =>
           /\ calls[i].pc \in {"settled", "rejected"}
           /\ calls[i].pc = "rejected" =>
                 /\ calls[i].error = i
                 /\ calls[i].seen = EmptyStatus
     /\ \A j \in Calls :
           /\ calls[j].awaited = i
           /\ calls[i].promise = "rejected"
           /\ calls[j].pc # "waiting"
           => /\ calls[j].pc = "rejected"
              /\ calls[j].error = i

\* A load that failed at its last base URL while an earlier engine was
\* loaded, and a call that waited for it: both have rejected.
C34_Witness ==
  \E i, j, k \in Calls :
     /\ calls[k].pc = "resolved" /\ calls[k].started
     /\ calls[i].pc = "rejected" /\ calls[i].error = i
     /\ calls[i].attempt >= 1 /\ calls[i].attempt = calls[i].candidates
     /\ calls[j].awaited = i /\ calls[j].pc = "rejected"

\* C36: an unloadEngine call never clears an engine that a call of
\* initializeEngine returned with after the unloadEngine call began.
C36_UnloadUndoesNoLaterInit == \A u \in Unloads : unloads[u].undoes = {}

\* -------------------------------------------------- generateChatCompletion
\* chunk.choices[0]?.delta?.content || '' of the chunks the engine yields.
Contents == {<<>>, <<"a">>, <<"b">>}

\* The signal argument: none, an AbortSignal that is not aborted, or one that
\* was aborted before the call.
Signals == {"none", "fresh", "aborted"}

\* The state of the other modules.
ChatOnly == UNCHANGED <<profile, serverVars, serviceVars, projectVars>>

\* generateChatCompletion(messages, options, onChunk, signal), to its await
\* of engine.chat.completions.create: the listener is added to the signal,
\* and runs when the signal's abort event is dispatched.
generateChatCompletion(onChunk, signal) ==
  /\ profile = "chat"
  /\ chat.pc = "idle"
  /\ chat' = [chat EXCEPT !.pc = IF engine = NoEngine THEN "threw" ELSE "creating",
                          !.noEngine = engine = NoEngine,
                          !.onChunk = onChunk, !.signal = signal]
  /\ ChatOnly

\* controller.abort() during the call: the abort event is dispatched and the
\* listener sets aborted.
SignalAborts ==
  /\ profile = "chat"
  /\ chat.pc \in {"creating", "streaming"}
  /\ chat.signal = "fresh"
  /\ chat' = [chat EXCEPT !.signal = "aborted", !.aborted = TRUE]
  /\ ChatOnly

\* The catch block.
Caught(c) ==
  IF c.aborted THEN [c EXCEPT !.pc = "returned", !.result = c.fullResponse]
               ELSE [c EXCEPT !.pc = "threw"]

\* engine.chat.completions.create settles.
CompletionSettle(ok) ==
  /\ profile = "chat"
  /\ chat.pc = "creating"
  /\ chat' = IF ok THEN [chat EXCEPT !.pc = "streaming"] ELSE Caught(chat)
  /\ ChatOnly

\* The body of the for await loop for one chunk.
OnDelta(c, content) ==
  IF c.aborted
    THEN [c EXCEPT !.pc = "returned", !.result = c.fullResponse]
    ELSE IF content # <<>>
      THEN [c EXCEPT !.deltas = @ + 1,
                     !.fullResponse = @ \o content,
                     !.delivered = IF c.onChunk THEN Append(@, content) ELSE @,
                     !.late = IF c.onChunk /\ c.signal = "aborted" THEN @ + 1 ELSE @]
      ELSE [c EXCEPT !.deltas = @ + 1]

\* The stream yields a chunk.
StreamYield(content) ==
  /\ profile = "chat"
  /\ chat.pc = "streaming"
  /\ chat.deltas < MaxDeltas
  /\ chat' = OnDelta(chat, content)
  /\ ChatOnly

\* The stream ends, or throws.
StreamEnd(ok) ==
  /\ profile = "chat"
  /\ chat.pc = "streaming"
  /\ chat' = IF ok THEN [chat EXCEPT !.pc = "returned", !.result = chat.fullResponse]
                    ELSE Caught(chat)
  /\ ChatOnly

GenerateCalls == \E onChunk \in BOOLEAN, signal \in Signals : generateChatCompletion(onChunk, signal)

CompletionSettles == \E ok \in BOOLEAN : CompletionSettle(ok)

StreamYields == \E content \in Contents : StreamYield(content)

StreamEnds == \E ok \in BOOLEAN : StreamEnd(ok)

InitChat == InitWith("chat")

NextChat == GenerateCalls \/ SignalAborts \/ CompletionSettles \/ StreamYields \/ StreamEnds

\* One call of generateChatCompletion, with or without a loaded engine.
SpecChat == InitChat /\ [][NextChat]_vars

\* C35: a call that returned with onChunk returned the concatenation of
\* the chunks it passed to onChunk; with a loaded engine and a signal that
\* is aborted, before or during the call, no chunk was passed to onChunk
\* after the abort and the call has not rejected; without engine the call
\* threw and passed no chunk.
C35_AbortStopsChunks ==
  /\ chat.pc = "returned" /\ chat.onChunk => chat.result = Concat(chat.delivered)
  /\ chat.signal = "aborted" /\ ~chat.noEngine => chat.late = 0 /\ chat.pc # "threw"
  /\ chat.noEngine => chat.pc = "threw" /\ chat.delivered = <<>>

\* ------------------------------------------- projects module (part_003 1-697)
\* cli-config.js getUiHome: the home of the resolved provider.
getUiHome(providerOverride) ==
  LET resolvedProvider == IF providerOverride = "" THEN DefaultProvider
                          ELSE normalizeProvider(providerOverride)
  IN  IF resolvedProvider = "codex" THEN "codex"
      ELSE IF resolvedProvider = "claude" THEN "claude"
      ELSE "gemini"

\* String.prototype.trim of a display name.
RECURSIVE TrimName(_)
TrimName(name) ==
  IF name # <<>> /\ Head(name) = " " THEN TrimName(Tail(name))
  ELSE IF name # <<>> /\ name[Len(name)] = " " THEN TrimName(SubSeq(name, 1, Len(name) - 1))
  ELSE name

\* The newDisplayName arguments.
NewDisplayNames == {<<>>, <<" ">>, <<"N">>, <<" ", "N", " ">>}

\* JSON.parse(line).sessionId === sessionId, false where JSON.parse throws.
IsOf(line, sessionId) == line.ok /\ line.sessionId = sessionId

\* lines.some(...) of deleteSession.
HasSession(lines, sessionId) == \E i \in 1..Len(lines) : IsOf(lines[i], sessionId)

\* filteredLines of deleteSession.
FilteredLines(lines, sessionId) == SelectSeq(lines, LAMBDA line : ~IsOf(line, sessionId))

\* getSessionMessages: the entries of the session in all files of the
\* directory; none if the directory cannot be read.
getSessionMessages(dir, sessionId) ==
  IF ~dir.exists THEN <<>>
  ELSE SelectSeq(dir.files["a.jsonl"].lines, LAMBDA line : IsOf(line, sessionId))
         \o SelectSeq(dir.files["b.jsonl"].lines, LAMBDA line : IsOf(line, sessionId))

\* getSessions(...).total: the session ids of the entries of all files; 0
\* if the directory cannot be read.
getSessionsTotal(dir) ==
  IF ~dir.exists THEN 0
  ELSE Cardinality({ dir.files[f].lines[i].sessionId :
                       <<f, i>> \in { x \in FileNames \X (1..MaxEntries) :
                                        /\ x[2] <= Len(dir.files[x[1]].lines)
                                        /\ dir.files[x[1]].lines[x[2]].ok
                                        /\ dir.files[x[1]].lines[x[2]].sessionId # "" } })

\* isProjectEmpty(projectName): getSessions(projectName, 1, 0), without
\* provider.
isProjectEmpty(projectName) == getSessionsTotal(projectDirs[getUiHome("")][projectName]) = 0

\* The orders in which fs.readdir may list the files.
ReaddirOrders == {<<"a.jsonl", "b.jsonl">>, <<"b.jsonl", "a.jsonl">>}

\* The first file of the listing that exists and holds the session, or "".
FirstWithSession(dir, sessionId, order) ==
  IF dir.files[order[1]].exists /\ HasSession(dir.files[order[1]].lines, sessionId) THEN order[1]
  ELSE IF dir.files[order[2]].exists /\ HasSession(dir.files[order[2]].lines, sessionId) THEN order[2]
  ELSE ""

Ended(op, home, projectName, sessionId, result, error) ==
  lastOp' = [op |-> op, home |-> home, project |-> projectName, sessionId |-> sessionId,
             result |-> result, error |-> error]

\* The state of the other modules.
ProjectsOnly == UNCHANGED <<profile, serverVars, serviceVars, chat>>

\* deleteSession(projectName, sessionId, providerOverride).
deleteSession(projectName, sessionId, providerOverride, order) ==
  /\ profile = "projects"
  /\ LET home == getUiHome(providerOverride)
         dir  == projectDirs[home][projectName]
         file == FirstWithSession(dir, sessionId, order)
     IN  IF ~dir.exists
           THEN /\ Ended("deleteSession", home, projectName, sessionId, "threw", "ENOENT")
                /\ UNCHANGED projectDirs
         ELSE IF \A f \in FileNames : ~dir.files[f].exists
           THEN /\ Ended("deleteSession", home, projectName, sessionId, "threw",
                         "No session files found for this project")
                /\ UNCHANGED projectDirs
         ELSE IF file = ""
           THEN /\ Ended("deleteSession", home, projectName, sessionId, "threw",
                         "Session not found in any files")
                /\ UNCHANGED projectDirs
           ELSE /\ projectDirs' = [projectDirs EXCEPT ![home][projectName].files[file].lines =
                                     FilteredLines(@, sessionId)]
                /\ Ended("deleteSession", home, projectName, sessionId, "true", "")
  /\ UNCHANGED projectConfigs
  /\ ProjectsOnly

\* renameProject(projectName, newDisplayName, providerOverride).
renameProject(projectName, newDisplayName, providerOverride) ==
  /\ profile = "projects"
  /\ LET home == getUiHome(providerOverride)
     IN  /\ projectConfigs' = [projectConfigs EXCEPT ![home][projectName] =
               IF newDisplayName = <<>> \/ TrimName(newDisplayName) = <<>>
                 THEN NoEntry
                 ELSE NamedEntry(TrimName(newDisplayName))]
         /\ Ended("renameProject", home, projectName, "", "true", "")
  /\ UNCHANGED projectDirs
  /\ ProjectsOnly

\* deleteProject(projectName, providerOverride).
deleteProject(projectName, providerOverride) ==
  /\ profile = "projects"
  /\ LET home == getUiHome(providerOverride)
     IN  IF ~isProjectEmpty(projectName)
           THEN /\ Ended("deleteProject", home, projectName, "", "threw",
                         "Cannot delete project with existing sessions")
                /\ UNCHANGED <<projectDirs, projectConfigs>>
           ELSE /\ projectDirs' = [projectDirs EXCEPT ![home][projectName] = NoDir]
                /\ projectConfigs' = [projectConfigs EXCEPT ![home][projectName] = NoEntry]
                /\ Ended("deleteProject", home, projectName, "", "true", "")
  /\ ProjectsOnly

DeleteSessions ==
  \E sessionId \in {"s1", "s2"}, providerOverride \in ProviderOverrides, order \in ReaddirOrders :
     deleteSession("p", sessionId, providerOverride, order)

RenameProjects ==
  \E newDisplayName \in NewDisplayNames, providerOverride \in ProviderOverrides :
     renameProject("p", newDisplayName, providerOverride)

DeleteProjects == \E providerOverride \in ProviderOverrides : deleteProject("p", providerOverride)

InitProjects == InitWith("projects")

NextProjects == DeleteSessions \/ RenameProjects \/ DeleteProjects

\* Calls of deleteSession, renameProject and deleteProject for one project,
\* from every state of its directories and config entries.
SpecProjects == InitProjects /\ [][NextProjects]_vars

\* C37: a deleteProject call for a project that has sessions in the home of
\* its provider throws 'Cannot delete project with existing sessions' and
\* changes neither directories nor config; a call that returns true has
\* removed the directory and the config entry.
C37_DeleteOnlyWithoutSessions ==
  [][lastOp'.op = "deleteProject" =>
       LET home == lastOp'.home
           projectName == lastOp'.project
       IN  /\ getSessionsTotal(projectDirs[home][projectName]) > 0 =>
                 /\ lastOp'.result = "threw"
                 /\ lastOp'.error = "Cannot delete project with existing sessions"
                 /\ UNCHANGED <<projectDirs, projectConfigs>>
           /\ lastOp'.result = "true" =>
                 /\ ~projectDirs'[home][projectName].exists
                 /\ ~projectConfigs'[home][projectName].exists]_vars

\* C38: after a deleteSession call that returned true, getSessionMessages
\* finds no entry of the session, and every file holds the lines it held
\* that are not entries of the session, in their order; a call for a
\* session that no file holds throws and changes no file.
C38_SessionGoneOthersKept ==
  [][lastOp'.op = "deleteSession" =>
       LET home == lastOp'.home
           projectName == lastOp'.project
           sessionId == lastOp'.sessionId
           dir == projectDirs[home][projectName]
       IN  /\ lastOp'.result = "true" =>
                 /\ getSessionMessages(projectDirs'[home][projectName], sessionId) = <<>>
                 /\ \A f \in FileNames :
                       projectDirs'[home][projectName].files[f].lines =
                          FilteredLines(dir.files[f].lines, sessionId)
           /\ getSessionMessages(dir, sessionId) = <<>> =>
                 /\ lastOp'.result = "threw"
                 /\ UNCHANGED projectDirs]_vars

\* C39: a renameProject call leaves manuallyAdded and originalPath of the
\* project's config entry, and the entries of all other projects, as they
\* were.
C39_RenameChangesNameOnly ==
  [][lastOp'.op = "renameProject" =>
       LET home == lastOp'.home
           projectName == lastOp'.project
       IN  /\ projectConfigs'[home][projectName].manuallyAdded =
                 projectConfigs[home][projectName].manuallyAdded
           /\ projectConfigs'[home][projectName].originalPath =
                 projectConfigs[home][projectName].originalPath
           /\ \A h \in Homes, n \in ProjectNames :
                 <<h, n>> # <<home, projectName>> =>
                    projectConfigs'[h][n] = projectConfigs[h][n]]_vars
====
